---- MODULE Spec2Model ----
(***************************************************************************)
(* Hybrid retrieval engine of the verifyr RAG backend:                     *)
(*   backend/retrieval/hybrid_search.py  (HybridSearcher)                  *)
(*   backend/indexing/vector_store.py    (VectorStore)                     *)
(*   backend/indexing/bm25_index.py      (BM25Index)                       *)
(*                                                                         *)
(* Scores are exact rationals: an RRF score s is held as the integer       *)
(* s * ScoreUnit, where ScoreUnit is the least common multiple of the      *)
(* denominators rrf_k + rank that can occur.  For the ranks of the model   *)
(* the float order of the sums and their exact order coincide.             *)
(***************************************************************************)
EXTENDS Integers, Sequences, FiniteSets, TLC

VARIABLES
    chunks,            \* chunks.json: the ingested corpus, as BM25Index.chunks holds it
    hybrid_searcher,   \* main.py: the global searcher is constructed
    client,            \* hybrid_searcher.vector_store.client is not None
    lock,              \* who holds the embedded Qdrant storage: "free" | "server" | "indexer"
    points,            \* the points stored in the collection (positions of chunks)
    bm25_results,      \* search_hybrid: what search_bm25 returned
    vector_results,    \* search_hybrid: what search_vector returned
    call,              \* arguments of the last search_hybrid call
    sorted_results,    \* search_hybrid: the fused candidates, sorted
    final_results,     \* search_hybrid: the returned list
    outcome,           \* "idle" | "ok" | "error" of the last search_hybrid call
    raised,            \* history: a lookup of the last search_hybrid call raised
    points_before,     \* history: the points when the last VectorStore.search began
    searched,          \* history: the last step was a VectorStore.search
    prev,              \* history: an earlier search_hybrid call of this searcher
    since,             \* history: what happened since the last search_hybrid call
    init_try,          \* history: the _initialize_qdrant call of the last step, if any
    bm25_index,        \* a BM25Index object: its chunks and bm25 attributes
    pickle_file,       \* bm25_index.pkl on disk
    query_scores,      \* bm25.get_scores(query_tokens) of the query the object is asked
    bm25_op,           \* history: the last BM25Index operation and what it gave
    question,          \* request.question: the query text, a sequence of characters
    query_analysis,    \* what _analyze_query(question) returned, once it was called
    auth_config,       \* auth_middleware: a JWKS client is available, SUPABASE_JWT_SECRET is set
    credentials,       \* the bearer credentials of a request, None or a token
    auth_result,       \* what get_current_user and require_admin gave for them
    conversations,     \* data/conversations: the file of every conversation id
    api,               \* history: the last request to a conversation endpoint, its response
    pdf_files,         \* data/raw: the PDF files of the product folders
    documents,         \* data/processed: the JSON file of every extracted document
    all_chunks,        \* chunks.json: what chunk_all_documents returned
    ingest             \* how far the ingestion has run

storevars == <<hybrid_searcher, client, lock, points>>
callvars == <<bm25_results, vector_results, call, sorted_results, final_results, outcome>>
histvars == <<raised, points_before, searched, prev, since, init_try>>
bm25vars == <<bm25_index, pickle_file, query_scores, bm25_op>>
analyzevars == <<question, query_analysis>>
authvars == <<auth_config, credentials, auth_result>>
convvars == <<conversations, api>>
ingestvars == <<pdf_files, documents, all_chunks, ingest>>
sidevars == <<bm25vars, analyzevars, authvars, convvars, ingestvars>>
vars == <<chunks, storevars, callvars, histvars, sidevars>>

-----------------------------------------------------------------------------
(* Bounds of the model *)

MaxRetrieveK == 3
MaxTopK == 4
MaxScore == 2        \* the library's BM25 scores are 0..MaxScore
MaxBm25TopK == 6     \* BM25Index.search is asked for 0..MaxBm25TopK results
MaxWords == 2        \* a query text starts with 0..MaxWords words of the vocabulary
MaxPad == 16         \* and goes on with 0..MaxPad filler words
MaxBlank == 2        \* a blank query text has 1..MaxBlank whitespace characters
MaxBalanceTopK == 5  \* top_k of the calls on pools of three products
MaxPdfs == 2          \* PDF files under data/raw
MaxPages == 2         \* pages of a PDF
MaxChunksPerPage == 2 \* chunks the splitter cuts a page into
MaxMessages == 2     \* a conversation file holds up to MaxMessages question/answer pairs

(* Program constants *)

rrf_k == 60

\* _analyze_query: "len(query.split()) > 15", "top_k = 8", "top_k = 5"
LongQueryWords == 15
ComplexTopK == 8
DefaultTopK == 5

\* Python's None for a rank or a score (ranks start at 1, the scores of the model at 0)
None == -1

-----------------------------------------------------------------------------
(* The corpus: chunks as chunker.chunk_page writes them.  The text stands   *)
(* for everything that tells two chunks apart besides the chunk_id.         *)

Apple == "Apple Watch Series 11"
Garmin == "Garmin Forerunner 970"
\* a further product folder, as product_keywords.py names one
Samsung == "samsung_galaxy_watch7_2025"
Products == {Apple, Garmin, Samsung}

Chunk(id, product, text) == [chunk_id |-> id, product_name |-> product, text |-> text]

\* one manual per product: every chunk_id is distinct
CorpusUnique ==
    << Chunk("a1", Apple, "t1"), Chunk("a2", Apple, "t2"), Chunk("a3", Apple, "t3"),
       Chunk("g1", Garmin, "t4"), Chunk("g2", Garmin, "t5") >>

\* two review PDFs of one product: page 1, chunk 0 of both get the same chunk_id
CorpusReviews ==
    << Chunk("a1", Apple, "t1"), Chunk("a2", Apple, "t2"), Chunk("a1", Apple, "t3"),
       Chunk("g1", Garmin, "t4"), Chunk("g2", Garmin, "t5") >>

Corpora == {CorpusUnique, CorpusReviews}

-----------------------------------------------------------------------------
(* Arithmetic helpers *)

RECURSIVE Gcd(_, _)
Gcd(a, b) == IF b = 0 THEN a ELSE Gcd(b, a % b)

Lcm(a, b) == (a \div Gcd(a, b)) * b

RECURSIVE LcmUpTo(_)
LcmUpTo(n) == IF n = 0 THEN 1 ELSE Lcm(LcmUpTo(n - 1), rrf_k + n)

\* the unit in which the model holds a score: 1.0 is ScoreUnit
ScoreUnit == LcmUpTo(MaxRetrieveK)

Min(a, b) == IF a < b THEN a ELSE b
Max(a, b) == IF a > b THEN a ELSE b

\* Python's seq[:n] for n >= 0
Take(seq, n) == SubSeq(seq, 1, Min(n, Len(seq)))

\* the sequences of exactly n distinct elements of S
InjSeqs(S, n) == { s \in [1..n -> S] : \A i, j \in 1..n : i # j => s[i] # s[j] }

-----------------------------------------------------------------------------
(* HybridSearcher *)

\* _calculate_rrf_score: 1.0 / (self.rrf_k + rank)
\* (mutant) the rank counted from 0
CalculateRrfScoreFromZero(rank) == ScoreUnit \div (rrf_k + rank - 1)

CalculateRrfScore(rank) == ScoreUnit \div (rrf_k + rank)

\* search_bm25: the (chunk, score) pairs of BM25Index.search, ranked from 1
SearchBm25Format(results) ==
    [ i \in 1..Len(results) |->
        [ chunk |-> results[i][1], bm25_score |-> results[i][2], bm25_rank |-> i,
          vector_score |-> None, vector_rank |-> None ] ]

\* search_vector: the hits of VectorStore.search, ranked from 1
SearchVectorFormat(results) ==
    [ i \in 1..Len(results) |->
        [ chunk |-> results[i][1], vector_score |-> results[i][2], vector_rank |-> i,
          bm25_score |-> None, bm25_rank |-> None ] ]

\* target_products: None or a list.  isNone tells the two apart.
NoTarget == [isNone |-> TRUE, items |-> <<>>]
Target(items) == [isNone |-> FALSE, items |-> items]

InList(x, list) == \E i \in 1..Len(list) : list[i] = x

\* "if target_products and product_name not in target_products: continue"
Filtered(target_products, product_name) ==
    /\ ~target_products.isNone
    /\ Len(target_products.items) > 0
    /\ ~InList(product_name, target_products.items)

\* position of chunk_id among the keys of the rrf_scores dict, 0 when absent
RECURSIVE KeyIndex(_, _, _)
KeyIndex(rrf_scores, chunk_id, i) ==
    IF i > Len(rrf_scores) THEN 0
    ELSE IF rrf_scores[i].chunk_id = chunk_id THEN i
    ELSE KeyIndex(rrf_scores, chunk_id, i + 1)

\* "chunk": None
NoChunk == Chunk("", "", "")

\* the defaultdict's fresh entry
DefaultEntry(chunk_id) ==
    [ chunk_id |-> chunk_id, rrf_score |-> 0, bm25_rank |-> None, vector_rank |-> None,
      bm25_score |-> None, vector_score |-> None, chunk |-> NoChunk ]

\* (mutant) the lexical loop assigns its contribution where the code adds it
AddBm25Assigning(rrf_scores, result, target_products) ==
    IF Filtered(target_products, result.chunk.product_name) THEN rrf_scores
    ELSE
        LET k == KeyIndex(rrf_scores, result.chunk.chunk_id, 1)
            d == IF k = 0 THEN Append(rrf_scores, DefaultEntry(result.chunk.chunk_id))
                 ELSE rrf_scores
            j == IF k = 0 THEN Len(d) ELSE k
        IN [ d EXCEPT ![j] =
               [ @ EXCEPT !.rrf_score = CalculateRrfScore(result.bm25_rank),
                          !.bm25_rank = result.bm25_rank,
                          !.bm25_score = result.bm25_score,
                          !.chunk = result.chunk ] ]

\* one iteration of "Add BM25 contributions"
AddBm25(rrf_scores, result, target_products) ==
    IF Filtered(target_products, result.chunk.product_name) THEN rrf_scores
    ELSE
        LET k == KeyIndex(rrf_scores, result.chunk.chunk_id, 1)
            d == IF k = 0 THEN Append(rrf_scores, DefaultEntry(result.chunk.chunk_id))
                 ELSE rrf_scores
            j == IF k = 0 THEN Len(d) ELSE k
        IN [ d EXCEPT ![j] =
               [ @ EXCEPT !.rrf_score = @ + CalculateRrfScore(result.bm25_rank),
                          !.bm25_rank = result.bm25_rank,
                          !.bm25_score = result.bm25_score,
                          !.chunk = result.chunk ] ]

\* (mutant) the vector loop has no target filter
AddVectorUnfiltered(rrf_scores, result, target_products) ==
    LET k == KeyIndex(rrf_scores, result.chunk.chunk_id, 1)
        d == IF k = 0 THEN Append(rrf_scores, DefaultEntry(result.chunk.chunk_id))
             ELSE rrf_scores
        j == IF k = 0 THEN Len(d) ELSE k
    IN [ d EXCEPT ![j] =
           [ @ EXCEPT !.rrf_score = @ + CalculateRrfScore(result.vector_rank),
                      !.vector_rank = result.vector_rank,
                      !.vector_score = result.vector_score,
                      !.chunk = IF @ = NoChunk THEN result.chunk ELSE @ ] ]

\* one iteration of "Add Vector contributions"
AddVector(rrf_scores, result, target_products) ==
    IF Filtered(target_products, result.chunk.product_name) THEN rrf_scores
    ELSE
        LET k == KeyIndex(rrf_scores, result.chunk.chunk_id, 1)
            d == IF k = 0 THEN Append(rrf_scores, DefaultEntry(result.chunk.chunk_id))
                 ELSE rrf_scores
            j == IF k = 0 THEN Len(d) ELSE k
        IN [ d EXCEPT ![j] =
               [ @ EXCEPT !.rrf_score = @ + CalculateRrfScore(result.vector_rank),
                          !.vector_rank = result.vector_rank,
                          !.vector_score = result.vector_score,
                          !.chunk = IF @ = NoChunk THEN result.chunk ELSE @ ] ]

RECURSIVE AddAllBm25(_, _, _, _)
AddAllBm25(rrf_scores, results, i, target_products) ==
    IF i > Len(results) THEN rrf_scores
    ELSE AddAllBm25(AddBm25(rrf_scores, results[i], target_products), results, i + 1,
                    target_products)

RECURSIVE AddAllVector(_, _, _, _)
AddAllVector(rrf_scores, results, i, target_products) ==
    IF i > Len(results) THEN rrf_scores
    ELSE AddAllVector(AddVector(rrf_scores, results[i], target_products), results, i + 1,
                      target_products)

\* (mutant) the rrf_scores dict lives on the searcher and is not emptied between calls
FuseScoresShared(bm25, vector, target_products) ==
    AddAllVector(AddAllBm25(sorted_results, bm25, 1, target_products), vector, 1,
                 target_products)

\* the rrf_scores dict after both loops, as its items in insertion order
FuseScores(bm25, vector, target_products) ==
    AddAllVector(AddAllBm25(<<>>, bm25, 1, target_products), vector, 1, target_products)

\* (mutant) a sort that is not stable: a candidate goes before those of equal score
RECURSIVE InsertDescTiesReversed(_, _)
InsertDescTiesReversed(sorted, e) ==
    IF sorted = <<>> THEN <<e>>
    ELSE IF Head(sorted).rrf_score > e.rrf_score
         THEN <<Head(sorted)>> \o InsertDescTiesReversed(Tail(sorted), e)
    ELSE <<e>> \o sorted

\* the two accumulation loops of search_hybrid run in the other order: "Add Vector
\* contributions" first, "Add BM25 contributions" second
FuseScoresVectorFirst(bm25, vector, target_products) ==
    AddAllBm25(AddAllVector(<<>>, vector, 1, target_products), bm25, 1, target_products)

\* sorted(..., key=rrf_score, reverse=True): stable, so equal scores keep their order
RECURSIVE InsertDesc(_, _)
InsertDesc(sorted, e) ==
    IF sorted = <<>> THEN <<e>>
    ELSE IF Head(sorted).rrf_score >= e.rrf_score THEN <<Head(sorted)>> \o InsertDesc(Tail(sorted), e)
    ELSE <<e>> \o sorted

\* (mutant) the candidates are left in the order the loops found them
KeepInsertionOrder(items, i) == SubSeq(items, 1, i)

RECURSIVE SortByRrfScore(_, _)
SortByRrfScore(items, i) ==
    IF i = 0 THEN <<>>
    ELSE InsertDesc(SortByRrfScore(items, i - 1), items[i])

SortedResults(bm25, vector, target_products) ==
    LET items == FuseScores(bm25, vector, target_products)
    IN SortByRrfScore(items, Len(items))

\* product_counts: a defaultdict(int)
ZeroCounts == [p \in Products |-> 0]

RECURSIVE CountProducts(_, _)
CountProducts(results, i) ==
    IF i = 0 THEN ZeroCounts
    ELSE [ CountProducts(results, i - 1) EXCEPT ![results[i].chunk.product_name] = @ + 1 ]

\* all_products: the products of the sorted candidates
AllProducts(sorted) == { sorted[i].chunk.product_name : i \in 1..Len(sorted) }

\* min_chunks_per_product = max(1, top_k // 2)
MinChunksPerProduct(top_k) == Max(1, top_k \div 2)

\* (mutant) the second pass does not skip the chunks that are in final_results
NeverInFinal(final, chunk_id) == FALSE

\* "any(r["chunk_id"] == chunk_id for r in final_results)"
InFinal(final, chunk_id) == \E i \in 1..Len(final) : final[i].chunk_id = chunk_id

\* (mutant) the condition "product_counts[other_product] > min_chunks_per_product" is
\* missing
ReplaceableWithoutMinimum(result, counts, product_name, m) ==
    LET other_product == result.chunk.product_name
    IN /\ other_product # product_name
       /\ counts[other_product] > counts[product_name]

\* a result of final that may give its place to a chunk of product_name
Replaceable(result, counts, product_name, m) ==
    LET other_product == result.chunk.product_name
    IN /\ other_product # product_name
       /\ counts[other_product] > m
       /\ counts[other_product] > counts[product_name]

\* the inner loop: the first index of the lowest rrf_score among the replaceable
\* results, 0 for min_score_idx = None
RECURSIVE MinScoreIdx(_, _, _, _, _, _)
MinScoreIdx(final, counts, product_name, m, idx, best) ==
    IF idx > Len(final) THEN best
    ELSE IF /\ Replaceable(final[idx], counts, product_name, m)
            /\ (best = 0 \/ final[idx].rrf_score < final[best].rrf_score)
         THEN MinScoreIdx(final, counts, product_name, m, idx + 1, idx)
         ELSE MinScoreIdx(final, counts, product_name, m, idx + 1, best)

\* (mutant) any(...) where the code has all(...): the loop stops as soon as one product
\* has its share
AnyBalanced(counts, all_products, m) == \E prod \in all_products : counts[prod] >= m

AllBalanced(counts, all_products, m) == \A prod \in all_products : counts[prod] >= m

\* the second pass of _ensure_product_diversity from position i of sorted_results
RECURSIVE SecondPass(_, _, _, _, _)
SecondPass(sorted, i, final, counts, m) ==
    IF i > Len(sorted) THEN final
    ELSE
        LET scores == sorted[i]
            product_name == scores.chunk.product_name
        IN IF InFinal(final, scores.chunk_id) THEN SecondPass(sorted, i + 1, final, counts, m)
           ELSE IF counts[product_name] < m
           THEN LET min_score_idx == MinScoreIdx(final, counts, product_name, m, 1, 0)
                IN IF min_score_idx # 0
                   THEN LET old_product == final[min_score_idx].chunk.product_name
                            final2 == [final EXCEPT ![min_score_idx] = scores]
                            counts2 == [ [counts EXCEPT ![old_product] = @ - 1]
                                           EXCEPT ![product_name] = @ + 1 ]
                        IN IF AllBalanced(counts2, AllProducts(sorted), m) THEN final2
                           ELSE SecondPass(sorted, i + 1, final2, counts2, m)
                   ELSE SecondPass(sorted, i + 1, final, counts, m)
           ELSE SecondPass(sorted, i + 1, final, counts, m)

\* the substitutions of the second pass from position i of sorted_results, in order:
\* for each, the position in sorted_results of the chunk that comes in, the list and
\* the counts before it, the index it writes to, and the list and the counts after it
RECURSIVE SecondPassSteps(_, _, _, _, _)
SecondPassSteps(sorted, i, final, counts, m) ==
    IF i > Len(sorted) THEN <<>>
    ELSE
        LET scores == sorted[i]
            product_name == scores.chunk.product_name
        IN IF InFinal(final, scores.chunk_id) THEN SecondPassSteps(sorted, i + 1, final, counts, m)
           ELSE IF counts[product_name] < m
           THEN LET min_score_idx == MinScoreIdx(final, counts, product_name, m, 1, 0)
                IN IF min_score_idx # 0
                   THEN LET old_product == final[min_score_idx].chunk.product_name
                            final2 == [final EXCEPT ![min_score_idx] = scores]
                            counts2 == [ [counts EXCEPT ![old_product] = @ - 1]
                                           EXCEPT ![product_name] = @ + 1 ]
                            step == [ position |-> i, final |-> final, counts |-> counts,
                                      min_score_idx |-> min_score_idx,
                                      final_after |-> final2, counts_after |-> counts2 ]
                        IN IF AllBalanced(counts2, AllProducts(sorted), m) THEN <<step>>
                           ELSE <<step>> \o SecondPassSteps(sorted, i + 1, final2, counts2, m)
                   ELSE SecondPassSteps(sorted, i + 1, final, counts, m)
           ELSE SecondPassSteps(sorted, i + 1, final, counts, m)

\* (mutant) the first pass stops at "len(final_results) > top_k"
EnsureProductDiversityOffByOne(sorted, top_k) ==
    LET first == Take(sorted, top_k + 1)
    IN SecondPass(sorted, 1, first, CountProducts(first, Len(first)),
                  MinChunksPerProduct(top_k))

\* _ensure_product_diversity(sorted_results, top_k)
EnsureProductDiversity(sorted, top_k) ==
    LET first == Take(sorted, top_k)
    IN SecondPass(sorted, 1, first, CountProducts(first, Len(first)),
                  MinChunksPerProduct(top_k))

\* (mutant) the apply_diversity flag is not read
ShouldApplyDiversityAlways(target_products, apply_diversity) ==
    target_products.isNone \/ Len(target_products.items) > 1

\* should_apply_diversity
ShouldApplyDiversity(target_products, apply_diversity) ==
    apply_diversity /\ (target_products.isNone \/ Len(target_products.items) > 1)

\* search_hybrid after the two lookups: the list it returns
FinalResults(sorted, top_k, target_products, apply_diversity) ==
    IF ShouldApplyDiversity(target_products, apply_diversity)
    THEN EnsureProductDiversity(sorted, top_k)
    ELSE Take(sorted, top_k)

-----------------------------------------------------------------------------
(* BM25Index.search and VectorStore.search *)

Queries == {"q1", "q2"}

\* self.bm25.get_scores(query_tokens): the library's score of every chunk
Bm25Scores(query) == IF query = "q1" THEN <<3, 1, 3, 0, 1>> ELSE <<0, 2, 0, 2, 1>>

\* (mutant) a sort that puts the later of two equal scores first
RECURSIVE InsertIndexUnstable(_, _, _)
InsertIndexUnstable(sorted, i, scores) ==
    IF sorted = <<>> THEN <<i>>
    ELSE IF scores[Head(sorted)] > scores[i]
         THEN <<Head(sorted)>> \o InsertIndexUnstable(Tail(sorted), i, scores)
         ELSE <<i>> \o sorted

\* sorted(range(len(scores)), key=lambda i: scores[i], reverse=True): stable
RECURSIVE InsertIndex(_, _, _)
InsertIndex(sorted, i, scores) ==
    IF sorted = <<>> THEN <<i>>
    ELSE IF scores[Head(sorted)] >= scores[i]
         THEN <<Head(sorted)>> \o InsertIndex(Tail(sorted), i, scores)
         ELSE <<i>> \o sorted

RECURSIVE SortIndices(_, _)
SortIndices(scores, n) ==
    IF n = 0 THEN <<>> ELSE InsertIndex(SortIndices(scores, n - 1), n, scores)

\* BM25Index.search(query, top_k) on a loaded index: (chunk, score) pairs
Bm25IndexSearch(corpus, query, top_k) ==
    LET scores == Bm25Scores(query)
        top_indices == Take(SortIndices(scores, Len(corpus)), top_k)
    IN [ i \in 1..Len(top_indices) |-> <<corpus[top_indices[i]], scores[top_indices[i]]>> ]

\* an attribute that is None, or holds a value
Nothing == [isNone |-> TRUE, value |-> <<>>]
Some(value) == [isNone |-> FALSE, value |-> value]

\* BM25Index.__init__: self.chunks = None, self.bm25 = None
NewBm25Index == [chunks |-> Nothing, bm25 |-> Nothing]

\* what an operation gives: it raised or not, the object and the file after it, and
\* the list it returned
Gives(error, self, file, results) ==
    [raised |-> error, self |-> self, file |-> file, results |-> results]

\* BM25Index.load_chunks(): self.chunks = json.load(chunks.json)
LoadChunks(self, file, chunks_json) ==
    Gives(FALSE, [self EXCEPT !.chunks = Some(chunks_json)], file, <<>>)

\* BM25Index.build_index(): raises while no chunks are loaded; the index is built on
\* the loaded chunks (bm25 holds the corpus it scores)
BuildIndex(self, file) ==
    IF self.chunks.isNone THEN Gives(TRUE, self, file, <<>>)
    ELSE Gives(FALSE, [self EXCEPT !.bm25 = Some(self.chunks.value)], file, <<>>)

\* BM25Index.save(): raises while no index is built; pickles bm25 and chunks
Save(self, file) ==
    IF self.bm25.isNone THEN Gives(TRUE, self, file, <<>>)
    ELSE Gives(FALSE, self, Some([bm25 |-> self.bm25.value, chunks |-> self.chunks.value]), <<>>)

\* BM25Index.load(): open() raises when the file is missing; else bm25 and chunks
\* are taken from the pickle
Load(self, file) ==
    IF file.isNone THEN Gives(TRUE, self, file, <<>>)
    ELSE Gives(FALSE, [bm25 |-> Some(file.value.bm25), chunks |-> Some(file.value.chunks)],
               file, <<>>)

\* (mutant) search without the "Index not loaded" guard: no hits instead of an error
SearchUnguarded(self, file, scores, top_k) ==
    IF self.bm25.isNone THEN Gives(FALSE, self, file, <<>>)
    ELSE LET top_indices == Take(SortIndices(scores, Len(scores)), top_k)
         IN Gives(FALSE, self, file,
                  [ i \in 1..Len(top_indices) |->
                      <<self.chunks.value[top_indices[i]], scores[top_indices[i]]>> ])

\* BM25Index.search(query, top_k), the query given by the scores the library computes
\* for it: raises while bm25 is None
Search(self, file, scores, top_k) ==
    IF self.bm25.isNone THEN Gives(TRUE, self, file, <<>>)
    ELSE LET top_indices == Take(SortIndices(scores, Len(scores)), top_k)
         IN Gives(FALSE, self, file,
                  [ i \in 1..Len(top_indices) |->
                      <<self.chunks.value[top_indices[i]], scores[top_indices[i]]>> ])

\* no BM25Index operation has run: a new object, no pickle on disk
NoBm25Op == [op |-> "none", raised |-> FALSE, results |-> <<>>, scores |-> <<>>, top_k |-> 0,
             self_before |-> NewBm25Index, file_before |-> Nothing]
Bm25Idle ==
    /\ bm25_index = NewBm25Index /\ pickle_file = Nothing
    /\ query_scores = <<>> /\ bm25_op = NoBm25Op

\* the cosine similarity of every stored chunk to the query's embedding
VectorScores(query) == IF query = "q1" THEN <<2, 3, 1, 5, 4>> ELSE <<5, 1, 2, 3, 4>>

\* client.query_points(limit=top_k): the stored points by descending similarity
RECURSIVE QueryPoints(_, _, _)
QueryPoints(stored, scores, limit) ==
    IF stored = {} \/ limit = 0 THEN <<>>
    ELSE LET best == CHOOSE p \in stored : \A q \in stored : scores[p] >= scores[q]
         IN <<best>> \o QueryPoints(stored \ {best}, scores, limit - 1)

\* (mutant) the client is made in a retry loop of three attempts
InitializeQdrantRetry(me, cl, lk, pts) ==
    IF cl THEN [raised |-> FALSE, client |-> cl, lock |-> lk, points |-> pts, attempts |-> 0]
    ELSE IF lk # "free"
    THEN [raised |-> TRUE, client |-> FALSE, lock |-> lk, points |-> pts, attempts |-> 3]
    ELSE [raised |-> FALSE, client |-> TRUE, lock |-> me, points |-> {}, attempts |-> 1]

\* VectorStore._initialize_qdrant of the store of process me: the client is made once;
\* making it takes the storage lock or raises, then deletes and re-creates the collection
\* (attempts counts the QdrantClient(path=...) calls)
InitializeQdrant(me, cl, lk, pts) ==
    IF cl THEN [raised |-> FALSE, client |-> cl, lock |-> lk, points |-> pts, attempts |-> 0]
    ELSE IF lk # "free"
    THEN [raised |-> TRUE, client |-> FALSE, lock |-> lk, points |-> pts, attempts |-> 1]
    ELSE [raised |-> FALSE, client |-> TRUE, lock |-> me, points |-> {}, attempts |-> 1]

\* VectorStore.search(query, top_k): the store after it, and the hits
VectorStoreSearch(me, cl, lk, pts, corpus, query, top_k) ==
    LET st == InitializeQdrant(me, cl, lk, pts)
        hits == QueryPoints(st.points, VectorScores(query), top_k)
    IN [ raised |-> st.raised, client |-> st.client, lock |-> st.lock, points |-> st.points,
         attempts |-> st.attempts,
         results |-> IF st.raised THEN <<>>
                     ELSE [ i \in 1..Len(hits) |-> <<corpus[hits[i]], VectorScores(query)[hits[i]]>> ] ]

\* (mutant) a failed vector lookup is caught and the lexical hits are returned alone
SearchHybridFallback(bm25, vs, top_k, target_products, apply_diversity) ==
    LET sorted == SortedResults(bm25, SearchVectorFormat(vs.results), target_products)
    IN [ outcome |-> "ok", sorted |-> sorted,
         final |-> FinalResults(sorted, top_k, target_products, apply_diversity) ]

\* search_hybrid: what the call gives its caller, given what the lookups did
SearchHybridReturn(bm25, vs, top_k, target_products, apply_diversity) ==
    IF vs.raised
    THEN [outcome |-> "error", sorted |-> <<>>, final |-> <<>>]
    ELSE LET sorted == SortedResults(bm25, SearchVectorFormat(vs.results), target_products)
         IN [ outcome |-> "ok", sorted |-> sorted,
              final |-> FinalResults(sorted, top_k, target_products, apply_diversity) ]

-----------------------------------------------------------------------------
(* HybridSearcher._analyze_query.  A text is a sequence of characters, so    *)
(* that "kw in query_lower" is a search for a substring.                     *)

apple_keywords ==
    { <<"a", "p", "p", "l", "e", " ", "w", "a", "t", "c", "h">>, <<"a", "p", "p", "l", "e">>, <<"s", "e", "r", "i", "e", "s", " ", "1", "1">> }
garmin_keywords ==
    { <<"g", "a", "r", "m", "i", "n">>, <<"f", "o", "r", "e", "r", "u", "n", "n", "e", "r">>, <<"9", "7", "0">> }

comparison_terms ==
    {
      <<"c", "o", "m", "p", "a", "r", "e">>,
      <<"c", "o", "m", "p", "a", "r", "i", "s", "o", "n">>,
      <<"v", "e", "r", "s", "u", "s">>, <<"v", "s">>, <<"v", "s", ".">>, <<"v", " ">>,
      <<"d", "i", "f", "f", "e", "r", "e", "n", "c", "e">>,
      <<"d", "i", "f", "f", "e", "r", "e", "n", "c", "e", "s">>,
      <<"b", "e", "t", "t", "e", "r">>, <<"w", "h", "i", "c", "h">>,
      <<"b", "e", "t", "w", "e", "e", "n">>, <<"s", "o", "w", "o", "h", "l">>,
      <<"s", "o", "w", "i", "e">>, <<"b", "e", "i", "d", "e">>,
      <<"u", "n", "t", "e", "r", "s", "c", "h", "i", "e", "d">>,
      <<"u", "n", "t", "e", "r", "s", "c", "h", "i", "e", "d", "e">>,
      <<"v", "e", "r", "g", "l", "e", "i", "c", "h">>, <<"b", "e", "s", "s", "e", "r">>,
      <<"w", "e", "l", "c", "h", "e">>, <<"z", "w", "i", "s", "c", "h", "e", "n">>
    }

complexity_indicators ==
    {
      <<"h", "o", "w">>, <<"w", "h", "y">>, <<"w", "h", "a", "t", " ", "a", "r", "e">>,
      <<"e", "x", "p", "l", "a", "i", "n">>, <<"d", "e", "t", "a", "i", "l", "e", "d">>,
      <<"s", "t", "e", "p">>, <<"g", "u", "i", "d", "e">>,
      <<"t", "u", "t", "o", "r", "i", "a", "l">>, <<"s", "e", "t", "u", "p">>,
      <<"c", "o", "n", "f", "i", "g", "u", "r", "e">>, <<"w", "i", "e">>,
      <<"w", "a", "r", "u", "m">>, <<"w", "a", "s", " ", "s", "i", "n", "d">>,
      <<"e", "r", "k", "l", "ä", "r", "e", "n">>,
      <<"d", "e", "t", "a", "i", "l", "l", "i", "e", "r", "t">>,
      <<"s", "c", "h", "r", "i", "t", "t">>,
      <<"a", "n", "l", "e", "i", "t", "u", "n", "g">>,
      <<"e", "i", "n", "r", "i", "c", "h", "t", "e", "n">>,
      <<"k", "o", "n", "f", "i", "g", "u", "r", "i", "e", "r", "e", "n">>
    }

\* str.lower() on the letters of the model's texts
Lower(c) ==
    CASE c = "A" -> "a" [] c = "S" -> "s" [] c = "U" -> "u" [] c = "V" -> "v"
      [] OTHER -> c

QueryLower(text) == [ i \in 1..Len(text) |-> Lower(text[i]) ]

\* "kw in text"
Contains(text, kw) ==
    \E i \in 0..(Len(text) - Len(kw)) : SubSeq(text, i + 1, i + Len(kw)) = kw

\* any(kw in query_lower for kw in keywords)
AnyIn(keywords, query_lower) == \E kw \in keywords : Contains(query_lower, kw)

Whitespace == {" ", "\t", "\n"}

\* len(query.split()): the runs of characters that are not whitespace
WordCount(text) ==
    Cardinality({ i \in 1..Len(text) :
                    /\ text[i] \notin Whitespace
                    /\ (i = 1 \/ text[i - 1] \in Whitespace) })

\* query.count('?')
CountQuestionMarks(text) == Cardinality({ i \in 1..Len(text) : text[i] = "?" })

\* the target_products list
DetectProducts(query_lower) ==
    (IF AnyIn(apple_keywords, query_lower) THEN <<Apple>> ELSE <<>>)
    \o (IF AnyIn(garmin_keywords, query_lower) THEN <<Garmin>> ELSE <<>>)

\* (mutant) a comparison only when a comparison term occurs
IsComparisonTermsOnly(target_products, query_lower) ==
    AnyIn(comparison_terms, query_lower)

IsComparison(target_products, query_lower) ==
    Len(target_products) >= 2 \/ AnyIn(comparison_terms, query_lower)

\* (mutant) "len(query.split()) >= 15"
IsComplexFromFifteen(text, query_lower) ==
    \/ AnyIn(complexity_indicators, query_lower)
    \/ CountQuestionMarks(text) > 1
    \/ WordCount(text) >= LongQueryWords

IsComplex(text, query_lower) ==
    \/ AnyIn(complexity_indicators, query_lower)
    \/ CountQuestionMarks(text) > 1
    \/ WordCount(text) > LongQueryWords

\* the if / elif / else that sets top_k
TopKFor(is_complex, is_comparison) ==
    IF is_complex THEN ComplexTopK
    ELSE IF is_comparison THEN DefaultTopK
    ELSE DefaultTopK

\* (mutant) the analysis of a text without a word is refused
AnalyzeQueryRefusingBlank(text) ==
    LET query_lower == QueryLower(text)
        target_products == DetectProducts(query_lower)
        is_comparison == IsComparison(target_products, query_lower)
        is_complex == IsComplex(text, query_lower)
    IN [ raised |-> WordCount(text) = 0,
         target_products |-> target_products,
         is_comparison |-> is_comparison,
         complexity |-> IF is_complex THEN "complex" ELSE "simple",
         top_k |-> TopKFor(is_complex, is_comparison) ]

\* _analyze_query(query): the returned dict; no statement of it can raise on a str
AnalyzeQuery(text) ==
    LET query_lower == QueryLower(text)
        target_products == DetectProducts(query_lower)
        is_comparison == IsComparison(target_products, query_lower)
        is_complex == IsComplex(text, query_lower)
    IN [ raised |-> FALSE,
         target_products |-> target_products,
         is_comparison |-> is_comparison,
         complexity |-> IF is_complex THEN "complex" ELSE "simple",
         top_k |-> TopKFor(is_complex, is_comparison) ]

\* _analyze_query was not called yet
NoAnalysis == [ raised |-> FALSE, target_products |-> <<>>, is_comparison |-> FALSE,
                complexity |-> "none", top_k |-> 0 ]
AnalyzeIdle == question = <<>> /\ query_analysis = NoAnalysis

-----------------------------------------------------------------------------
(* Ingestion: pdf_processor.py and chunker.py.  Names are sequences of      *)
(* characters; a PDF is known by its product folder, its file name and, for *)
(* each page, the number of chunks the splitter cuts the page's text into   *)
(* (0: a page without text).                                                *)

\* the characters of the names, in code point order
CodePoints ==
    << ".", "0", "1", "2", "3", "4", "5", "6", "7", "8", "9",
       "A", "S", "U", "V", "_",
       "a", "b", "c", "d", "e", "f", "g", "h", "i", "j", "k", "l", "m",
       "n", "o", "p", "q", "r", "s", "t", "u", "v", "w", "x", "y", "z" >>

CodePoint(c) == CHOOSE i \in 1..Len(CodePoints) : CodePoints[i] = c

\* s < t for two strings
RECURSIVE StrLess(_, _)
StrLess(s, t) ==
    IF t = <<>> THEN FALSE
    ELSE IF s = <<>> THEN TRUE
    ELSE IF Head(s) = Head(t) THEN StrLess(Tail(s), Tail(t))
    ELSE CodePoint(Head(s)) < CodePoint(Head(t))

\* str(n) for n >= 0
RECURSIVE Str(_)
Str(n) ==
    IF n < 10 THEN <<CodePoints[n + 2]>>
    ELSE Str(n \div 10) \o <<CodePoints[(n % 10) + 2]>>

PdfSuffix == <<".", "p", "d", "f">>
JsonSuffix == <<".", "j", "s", "o", "n">>

\* Path(filename).stem: the name without its last suffix
Stem(filename) ==
    LET dots == { i \in 2..(Len(filename) - 1) : filename[i] = "." }
    IN IF dots = {} THEN filename
       ELSE SubSeq(filename, 1, (CHOOSE i \in dots : \A j \in dots : j <= i) - 1)

\* _infer_doc_type
InferDocType(filename) ==
    LET filename_lower == QueryLower(filename)
        spec == \/ Contains(filename_lower, <<"s","p","e","c","i","f","i","c","a","t","i","o","n">>)
                \/ Contains(filename_lower, <<"s","p","e","c">>)
    IN IF Contains(filename_lower, <<"m","a","n","u","a","l">>)
       THEN IF spec
            THEN <<"s","p","e","c","i","f","i","c","a","t","i","o","n","s","_","m","a","n","u","a","l">>
            ELSE <<"m","a","n","u","a","l">>
       ELSE IF spec THEN <<"s","p","e","c","i","f","i","c","a","t","i","o","n","s">>
       ELSE IF Contains(filename_lower, <<"r","e","v","i","e","w">>) THEN <<"r","e","v","i","e","w">>
       ELSE Stem(filename)

\* extract_text_from_pdf: the page_data of the pages that have text, from page number p
RECURSIVE ExtractPages(_, _)
ExtractPages(pdf, p) ==
    IF p > Len(pdf.pages) THEN <<>>
    ELSE IF pdf.pages[p] = 0 THEN ExtractPages(pdf, p + 1)
    ELSE << [ product_name |-> pdf.product_name, doc_type |-> InferDocType(pdf.name),
              page_num |-> p, source_file |-> pdf.name, text |-> pdf.pages[p] ] >>
         \o ExtractPages(pdf, p + 1)

ExtractTextFromPdf(pdf) == ExtractPages(pdf, 1)

\* sorted(product_folders), then sorted(pdf_files) within a folder
PdfBefore(a, b) ==
    \/ StrLess(a.product_name, b.product_name)
    \/ a.product_name = b.product_name /\ StrLess(a.name, b.name)

RECURSIVE SortedPdfs(_)
SortedPdfs(files) ==
    IF files = {} THEN <<>>
    ELSE LET first == CHOOSE a \in files : \A b \in files \ {a} : PdfBefore(a, b)
         IN <<first>> \o SortedPdfs(files \ {first})

\* the position of a key in the all_documents dict, 0 when absent
RECURSIVE DocumentIndex(_, _, _)
DocumentIndex(all_documents, filename, i) ==
    IF i > Len(all_documents) THEN 0
    ELSE IF all_documents[i].filename = filename THEN i
    ELSE DocumentIndex(all_documents, filename, i + 1)

\* process_directory, from the i-th PDF in sorted order: the all_documents dict
RECURSIVE ProcessPdfs(_, _, _)
ProcessPdfs(sorted_pdfs, i, all_documents) ==
    IF i > Len(sorted_pdfs) THEN all_documents
    ELSE
        LET pdf_file == sorted_pdfs[i]
            pages_data == ExtractTextFromPdf(pdf_file)
            doc_type == InferDocType(pdf_file.name)
            plain == pdf_file.product_name \o <<"_">> \o doc_type \o JsonSuffix
            output_filename ==
                IF DocumentIndex(all_documents, plain, 1) # 0
                THEN pdf_file.product_name \o <<"_">> \o doc_type \o <<"_">>
                       \o Stem(pdf_file.name) \o JsonSuffix
                ELSE plain
            k == DocumentIndex(all_documents, output_filename, 1)
            document == [filename |-> output_filename, pages |-> pages_data]
        IN IF pages_data = <<>> THEN ProcessPdfs(sorted_pdfs, i + 1, all_documents)
           ELSE IF k = 0 THEN ProcessPdfs(sorted_pdfs, i + 1, Append(all_documents, document))
           ELSE ProcessPdfs(sorted_pdfs, i + 1, [all_documents EXCEPT ![k] = document])

\* process_directory and save_documents: the JSON files of data/processed
ProcessDirectory(files) == ProcessPdfs(SortedPdfs(files), 1, <<>>)

\* _create_chunk_id: f"{product_name}_{doc_type}_p{page_num}_c{chunk_index}"
CreateChunkId(product_name, doc_type, page_num, chunk_index) ==
    product_name \o <<"_">> \o doc_type \o <<"_", "p">> \o Str(page_num) \o <<"_", "c">>
      \o Str(chunk_index)

\* chunk_page: the chunks of one page
ChunkPage(page_data, global_chunk_index) ==
    [ n \in 1..page_data.text |->
        [ chunk_id |-> CreateChunkId(page_data.product_name, page_data.doc_type,
                                     page_data.page_num, n - 1),
          chunk_index |-> global_chunk_index + (n - 1),
          product_name |-> page_data.product_name,
          doc_type |-> page_data.doc_type,
          page_num |-> page_data.page_num,
          source_file |-> page_data.source_file,
          text |-> <<page_data.source_file, page_data.page_num, n - 1>> ] ]

\* chunk_document, from page p of the document
RECURSIVE ChunkPages(_, _, _)
ChunkPages(pages, p, current_chunk_index) ==
    IF p > Len(pages) THEN <<>>
    ELSE LET page_chunks == ChunkPage(pages[p], current_chunk_index)
         IN page_chunks \o ChunkPages(pages, p + 1, current_chunk_index + Len(page_chunks))

\* sorted(json_files)
RECURSIVE SortedDocuments(_)
SortedDocuments(json_files) ==
    IF json_files = {} THEN <<>>
    ELSE LET first == CHOOSE a \in json_files :
                        \A b \in json_files \ {a} : StrLess(a.filename, b.filename)
         IN <<first>> \o SortedDocuments(json_files \ {first})

\* chunk_all_documents, from the i-th JSON file in sorted order
RECURSIVE ChunkDocuments(_, _, _)
ChunkDocuments(sorted_json, i, total_chunks) ==
    IF i > Len(sorted_json) THEN <<>>
    ELSE LET doc_chunks == ChunkPages(sorted_json[i].pages, 1, total_chunks)
         IN doc_chunks \o ChunkDocuments(sorted_json, i + 1, total_chunks + Len(doc_chunks))

\* chunk_all_documents over the JSON files of data/processed
ChunkAllDocuments(json_files) ==
    ChunkDocuments(SortedDocuments({ json_files[i] : i \in 1..Len(json_files) }), 1, 0)

IngestIdle == pdf_files = {} /\ documents = <<>> /\ all_chunks = <<>> /\ ingest = "idle"

-----------------------------------------------------------------------------
(* auth_middleware.get_current_user.  A token is known by what the checks of *)
(* jwt.decode find in it.                                                    *)

UserIds == {"alice", "bob"}

\* a bearer token: decodable as a JWT or not; whose key signed it ("jwks": a key of the
\* JWKS endpoint, "hs256": the JWT secret, "forged": any other key); audience and expiry
\* in order or not; the payload's sub ("" when missing) and its admin metadata
Tokens ==
    [ decodable : BOOLEAN, signed_by : {"jwks", "hs256", "forged"}, claims_valid : BOOLEAN,
      sub : UserIds \cup {""}, is_admin : BOOLEAN ]

NoToken == [ decodable |-> FALSE, signed_by |-> "forged", claims_valid |-> FALSE,
             sub |-> "", is_admin |-> FALSE ]

\* Optional[HTTPAuthorizationCredentials]
NoCredentials == [isNone |-> TRUE, token |-> NoToken]
Bearer(token) == [isNone |-> FALSE, token |-> token]

NoUser == [id |-> "", is_admin |-> FALSE]
AuthUser(id, is_admin) == [id |-> id, is_admin |-> is_admin]

\* Method 1: jwt.decode with the JWKS signing key, algorithms RS256/ES256
VerifyJwks(config, token) ==
    config.jwks /\ token.decodable /\ token.signed_by = "jwks" /\ token.claims_valid

\* Method 2: jwt.decode with the JWT secret, algorithm HS256
VerifyHs256(config, token) ==
    config.jwt_secret /\ token.decodable /\ token.signed_by = "hs256" /\ token.claims_valid

\* Method 3: jwt.decode(token, options={"verify_signature": False, "verify_aud": False})
DecodeUnverified(token) == token.decodable

\* get_current_user(request, credentials): 401, or the AuthUser and the method used
GetCurrentUser(creds, config) ==
    IF creds.isNone THEN [status |-> 401, user |-> NoUser, method_used |-> "none"]
    ELSE
        LET token == creds.token
            method_used ==
                IF VerifyJwks(config, token) THEN "JWKS"
                ELSE IF VerifyHs256(config, token) THEN "HS256"
                ELSE IF DecodeUnverified(token) THEN "UNVERIFIED"
                ELSE "none"
        IN IF method_used = "none" THEN [status |-> 401, user |-> NoUser, method_used |-> "none"]
           ELSE IF token.sub = "" THEN [status |-> 401, user |-> NoUser, method_used |-> method_used]
           ELSE [ status |-> 200, user |-> AuthUser(token.sub, token.is_admin),
                  method_used |-> method_used ]

\* require_admin(user): 403 unless the user is an admin
RequireAdmin(user) == IF user.is_admin THEN 200 ELSE 403

NoAuthResult == [status |-> 0, user |-> NoUser, method_used |-> "none", admin_status |-> 0]
AuthIdle ==
    /\ auth_config = [jwks |-> FALSE, jwt_secret |-> FALSE]
    /\ credentials = NoCredentials
    /\ auth_result = NoAuthResult

-----------------------------------------------------------------------------
(* The conversation files and the endpoints that read and write them.  A    *)
(* message stands for a question/answer pair and is known by its author.    *)

ConversationIds == {"c1", "c2"}

\* the users get_current_user returns
AuthUsers == { AuthUser(id, FALSE) : id \in UserIds } \cup { AuthUser("root", TRUE) }

NoFile == [exists |-> FALSE, user_id |-> "", messages |-> <<>>]

\* a file from before authentication, as migration_add_user_ids left it
LegacyFile == [exists |-> TRUE, user_id |-> "anonymous", messages |-> <<"anonymous">>]

\* "Filter by user ownership (admins see all)" / "Check ownership"
MayRead(user, data) ==
    user.is_admin \/ data.user_id = user.id \/ data.user_id = "anonymous"

\* POST /query, Step 4: load the conversation file or start a new one for the user,
\* append the question and the answer, write the file
SaveConversation(files, user, conversation_id) ==
    LET conversation_data ==
            IF files[conversation_id].exists THEN files[conversation_id]
            ELSE [exists |-> TRUE, user_id |-> user.id, messages |-> <<>>]
    IN [ files EXCEPT ![conversation_id] =
            [conversation_data EXCEPT !.messages = Append(@, user.id)] ]

\* GET /conversations: the conversation ids of the response
ListConversationsReturn(files, user) ==
    { c \in ConversationIds : files[c].exists /\ MayRead(user, files[c]) }

\* GET /conversations/{conversation_id}: the status and the messages of the response
GetConversationReturn(files, user, conversation_id) ==
    IF ~files[conversation_id].exists THEN [status |-> 404, messages |-> <<>>]
    ELSE IF ~MayRead(user, files[conversation_id]) THEN [status |-> 403, messages |-> <<>>]
    ELSE [status |-> 200, messages |-> files[conversation_id].messages]

NoRequest == [ endpoint |-> "none", status |-> 0, user |-> NoUser, conversation_id |-> "",
               listed |-> {}, messages |-> <<>>, file_before |-> NoFile ]
ConversationsIdle ==
    /\ conversations = [c \in ConversationIds |-> NoFile]
    /\ api = NoRequest

-----------------------------------------------------------------------------
(* The server process (main.py) and the indexing process (vector_store.main) *)

NoCall == [ query |-> "", top_k |-> 0, retrieve_k |-> 0, target_products |-> NoTarget,
            apply_diversity |-> FALSE ]

NoPrev == [valid |-> FALSE, call |-> NoCall, final |-> <<>>, indexed |-> FALSE, released |-> FALSE]
NothingSince == [indexed |-> FALSE, released |-> FALSE]

\* what a step records of its _initialize_qdrant call: the caller ("constructor",
\* "search", "upload"; "none" when the step made no client), whether another process
\* held the storage, the QdrantClient(...) attempts, and the points before the call
NoInit == [path |-> "none", held |-> FALSE, attempts |-> 0, raised |-> FALSE, points_before |-> {}]
InitTry(path, lk, pts, st) ==
    [ path |-> path, held |-> lk # "free", attempts |-> st.attempts, raised |-> st.raised,
      points_before |-> pts ]

\* no server and no indexing process is running
SystemIdle ==
    /\ hybrid_searcher = FALSE /\ client = FALSE /\ lock = "free" /\ points = {}
    /\ bm25_results = <<>> /\ vector_results = <<>> /\ call = NoCall
    /\ sorted_results = <<>> /\ final_results = <<>> /\ outcome = "idle"
    /\ raised = FALSE /\ points_before = {} /\ searched = FALSE
    /\ prev = NoPrev /\ since = NothingSince /\ init_try = NoInit

Init ==
    /\ IngestIdle
    /\ chunks \in Corpora
    /\ SystemIdle
    /\ Bm25Idle
    /\ AnalyzeIdle
    /\ AuthIdle
    /\ ConversationsIdle

\* startup_event: HybridSearcher(...), whose constructor pre-loads the Qdrant client
Startup ==
    /\ ~hybrid_searcher
    /\ LET st == InitializeQdrant("server", FALSE, lock, points)
       IN /\ hybrid_searcher' = ~st.raised
          /\ client' = st.client /\ lock' = st.lock /\ points' = st.points
          /\ init_try' = InitTry("constructor", lock, points, st)
    /\ searched' = FALSE
    /\ UNCHANGED <<chunks, sidevars, callvars, raised, points_before, prev, since>>

\* POST /query: hybrid_searcher.search_hybrid(query, top_k, retrieve_k, ...)
SearchHybrid(query, top_k, retrieve_k, target_products, apply_diversity, keep) ==
    /\ hybrid_searcher
    /\ LET bm25 == SearchBm25Format(Bm25IndexSearch(chunks, query, retrieve_k))
           vs == VectorStoreSearch("server", client, lock, points, chunks, query, retrieve_k)
           ret == SearchHybridReturn(bm25, vs, top_k, target_products, apply_diversity)
       IN /\ bm25_results' = bm25
          /\ vector_results' = SearchVectorFormat(vs.results)
          /\ raised' = vs.raised
          /\ client' = vs.client /\ lock' = vs.lock /\ points' = vs.points
          /\ sorted_results' = ret.sorted
          /\ final_results' = ret.final
          /\ outcome' = ret.outcome
          /\ init_try' = IF client THEN NoInit ELSE InitTry("search", lock, points, vs)
    /\ call' = [ query |-> query, top_k |-> top_k, retrieve_k |-> retrieve_k,
                 target_products |-> target_products, apply_diversity |-> apply_diversity ]
    /\ points_before' = points /\ searched' = TRUE
    /\ prev' = IF keep /\ prev.valid
               THEN [prev EXCEPT !.indexed = @ \/ since.indexed, !.released = @ \/ since.released]
               ELSE IF outcome = "ok"
               THEN [ valid |-> TRUE, call |-> call, final |-> final_results,
                      indexed |-> since.indexed, released |-> since.released ]
               ELSE NoPrev
    /\ since' = NothingSince
    /\ UNCHANGED <<chunks, sidevars, hybrid_searcher>>

\* VectorStore.close(): the client is dropped, which releases the storage lock
Close ==
    /\ hybrid_searcher /\ client
    /\ client' = FALSE /\ lock' = "free"
    /\ since' = [since EXCEPT !.released = TRUE]
    /\ searched' = FALSE /\ init_try' = NoInit
    /\ UNCHANGED <<chunks, sidevars, hybrid_searcher, points, callvars, raised, points_before, prev>>

\* shutdown_event: hybrid_searcher.vector_store.client = None
ShutdownEvent ==
    /\ hybrid_searcher /\ client
    /\ client' = FALSE /\ lock' = "free"
    /\ since' = [since EXCEPT !.released = TRUE]
    /\ searched' = FALSE /\ init_try' = NoInit
    /\ UNCHANGED <<chunks, sidevars, hybrid_searcher, points, callvars, raised, points_before, prev>>

\* the server process ends: its searcher is gone
ServerExit ==
    /\ hybrid_searcher /\ ~client
    /\ hybrid_searcher' = FALSE
    /\ bm25_results' = <<>> /\ vector_results' = <<>> /\ call' = NoCall
    /\ sorted_results' = <<>> /\ final_results' = <<>> /\ outcome' = "idle"
    /\ raised' = FALSE /\ searched' = FALSE /\ prev' = NoPrev /\ since' = NothingSince
    /\ init_try' = NoInit
    /\ UNCHANGED <<chunks, sidevars, client, lock, points, points_before>>

\* vector_store.main(): upload_to_qdrant(chunks, embeddings) in the indexing process
IndexerUpload ==
    /\ lock # "indexer"
    /\ LET st == InitializeQdrant("indexer", FALSE, lock, points)
       IN /\ lock' = st.lock
          /\ points' = IF st.raised THEN points ELSE 1..Len(chunks)
          /\ since' = [since EXCEPT !.indexed = @ \/ ~st.raised]
          /\ init_try' = InitTry("upload", lock, points, st)
    /\ searched' = FALSE
    /\ UNCHANGED <<chunks, sidevars, hybrid_searcher, client, callvars, raised, points_before, prev>>

\* vector_store.main(): the test queries, vector_store.search(query, top_k=3)
IndexerSearch(query) ==
    /\ lock = "indexer"
    /\ LET vs == VectorStoreSearch("indexer", TRUE, lock, points, chunks, query, 3)
       IN points' = vs.points
    /\ points_before' = points /\ searched' = TRUE /\ init_try' = NoInit
    /\ UNCHANGED <<chunks, sidevars, hybrid_searcher, client, lock, callvars, raised, prev, since>>

\* the indexing process ends and its lock is released
IndexerExit ==
    /\ lock = "indexer"
    /\ lock' = "free"
    /\ searched' = FALSE /\ init_try' = NoInit
    /\ UNCHANGED <<chunks, sidevars, hybrid_searcher, client, points, callvars, raised, points_before, prev, since>>

\* the arguments the model passes to search_hybrid
TopKs == {MaxTopK}
Targets == {NoTarget, Target(<<Garmin>>)}

Next ==
    \/ Startup
    \/ \E query \in Queries, top_k \in TopKs, target_products \in Targets,
          apply_diversity \in BOOLEAN, keep \in BOOLEAN :
          SearchHybrid(query, top_k, MaxRetrieveK, target_products, apply_diversity, keep)
    \/ Close
    \/ ShutdownEvent
    \/ ServerExit
    \/ IndexerUpload
    \/ \E query \in Queries : IndexerSearch(query)
    \/ IndexerExit

Spec == Init /\ [][Next]_vars

-----------------------------------------------------------------------------
(* The fusion as a function of what the two lookups return *)

\* the target_products values a caller passes
TargetChoices ==
    { NoTarget, Target(<<>>), Target(<<Apple>>), Target(<<Apple, Garmin>>),
      Target(<<Apple, Apple>>) }

\* a ranked hit list: n distinct chunks of the corpus, scores descending
HitLists(corpus, n) ==
    { [ i \in 1..n |-> <<corpus[s[i]], n - i>> ] : s \in InjSeqs(1..Len(corpus), n) }

InitFusion ==
    /\ IngestIdle
    /\ chunks \in Corpora
    /\ \E retrieve_k \in 1..MaxRetrieveK :
         /\ bm25_results \in { SearchBm25Format(h) : h \in HitLists(chunks, Min(retrieve_k, Len(chunks))) }
         /\ vector_results \in { SearchVectorFormat(h) :
                                    h \in HitLists(chunks, Min(retrieve_k, Len(chunks))) \cup {<<>>} }
         /\ call = [NoCall EXCEPT !.retrieve_k = retrieve_k]
    /\ sorted_results = <<>>
    /\ final_results = <<>>
    /\ outcome = "idle"
    /\ hybrid_searcher = TRUE /\ client = TRUE /\ lock = "server" /\ points = {}
    /\ raised = FALSE /\ points_before = {} /\ searched = FALSE
    /\ prev = NoPrev /\ since = NothingSince /\ init_try = NoInit
    /\ Bm25Idle
    /\ AnalyzeIdle
    /\ AuthIdle
    /\ ConversationsIdle

\* search_hybrid, lines 237-308, on the lists the two lookups returned
Fuse(top_k, target_products, apply_diversity) ==
    /\ outcome = "idle"
    /\ call' = [ call EXCEPT !.top_k = top_k, !.target_products = target_products,
                              !.apply_diversity = apply_diversity ]
    /\ sorted_results' = SortedResults(bm25_results, vector_results, target_products)
    /\ final_results' = FinalResults(sorted_results', top_k, target_products, apply_diversity)
    /\ outcome' = "ok"
    /\ UNCHANGED <<chunks, sidevars, storevars, bm25_results, vector_results, histvars>>

NextFusion ==
    \E top_k \in 0..MaxTopK, target_products \in TargetChoices, apply_diversity \in BOOLEAN :
        Fuse(top_k, target_products, apply_diversity)

SpecFusion == InitFusion /\ [][NextFusion]_vars

-----------------------------------------------------------------------------
(* search_hybrid over pools of up to three products, for the balancing step *)

\* a corpus of n chunks with distinct chunk_ids, each of any product
PoolCorpora(n) ==
    { [ i \in 1..n |-> Chunk("c" \o ToString(i), product[i], "t" \o ToString(i)) ] :
        product \in [1..n -> Products] }

\* the vector hit lists over chunks 1..n when the lexical search returned chunks 1..nb:
\* any chunks of the lexical list in any order, and the chunks nb+1..n, which only the
\* vector search returned, numbered in the order it returned them
PoolVectorLists(nb, n) ==
    UNION { { s \in InjSeqs(1..n, nv) :
                /\ \A c \in (nb + 1)..n : \E i \in 1..nv : s[i] = c
                /\ \A i, j \in 1..nv : (i < j /\ s[i] > nb /\ s[j] > nb) => s[i] < s[j] } :
            nv \in 0..MaxRetrieveK }

TargetsBalance == { NoTarget, Target(<<Apple, Garmin>>) }

InitBalance ==
    /\ IngestIdle
    /\ \E nb \in 0..MaxRetrieveK, n \in 1..(2 * MaxRetrieveK) :
         /\ nb <= n /\ n <= nb + MaxRetrieveK
         /\ chunks \in PoolCorpora(n)
         /\ bm25_results = SearchBm25Format([ i \in 1..nb |-> <<chunks[i], nb - i>> ])
         /\ vector_results \in
              { SearchVectorFormat([ i \in 1..Len(s) |-> <<chunks[s[i]], Len(s) - i>> ]) :
                  s \in PoolVectorLists(nb, n) }
    /\ call = [NoCall EXCEPT !.retrieve_k = MaxRetrieveK]
    /\ sorted_results = <<>>
    /\ final_results = <<>>
    /\ outcome = "idle"
    /\ hybrid_searcher = TRUE /\ client = TRUE /\ lock = "server" /\ points = {}
    /\ raised = FALSE /\ points_before = {} /\ searched = FALSE
    /\ prev = NoPrev /\ since = NothingSince /\ init_try = NoInit
    /\ Bm25Idle
    /\ AnalyzeIdle
    /\ AuthIdle
    /\ ConversationsIdle

NextBalance ==
    \E top_k \in 0..MaxBalanceTopK, target_products \in TargetsBalance :
        Fuse(top_k, target_products, TRUE)

SpecBalance == InitBalance /\ [][NextBalance]_vars

-----------------------------------------------------------------------------
(* A BM25Index object through its operations (bm25_index.main, HybridSearcher) *)

\* the pickle an earlier run of bm25_index.main left for this corpus
Pickle(corpus) == Some([bm25 |-> corpus, chunks |-> corpus])

InitBm25 ==
    /\ IngestIdle
    /\ chunks \in Corpora
    /\ SystemIdle
    /\ bm25_index = NewBm25Index
    /\ pickle_file \in {Nothing, Pickle(chunks)}
    /\ query_scores \in [1..Len(chunks) -> 0..MaxScore]
    /\ bm25_op = NoBm25Op
    /\ AnalyzeIdle
    /\ AuthIdle
    /\ ConversationsIdle

\* one operation of the object: the attributes, the file and the record of the call
Bm25Operation(op, top_k, gives) ==
    /\ bm25_index' = gives.self
    /\ pickle_file' = gives.file
    /\ bm25_op' = [ op |-> op, raised |-> gives.raised, results |-> gives.results,
                    scores |-> query_scores, top_k |-> top_k,
                    self_before |-> bm25_index, file_before |-> pickle_file ]
    /\ UNCHANGED <<chunks, ingestvars, storevars, callvars, histvars, query_scores, analyzevars,
                   authvars, convvars>>

Bm25LoadChunks == Bm25Operation("load_chunks", 0, LoadChunks(bm25_index, pickle_file, chunks))

Bm25BuildIndex == Bm25Operation("build_index", 0, BuildIndex(bm25_index, pickle_file))

Bm25Save == Bm25Operation("save", 0, Save(bm25_index, pickle_file))

Bm25Load == Bm25Operation("load", 0, Load(bm25_index, pickle_file))

Bm25Search(top_k) ==
    Bm25Operation("search", top_k, Search(bm25_index, pickle_file, query_scores, top_k))

NextBm25 ==
    \/ Bm25LoadChunks
    \/ Bm25BuildIndex
    \/ Bm25Save
    \/ Bm25Load
    \/ \E top_k \in 0..MaxBm25TopK : Bm25Search(top_k)

SpecBm25 == InitBm25 /\ [][NextBm25]_vars

-----------------------------------------------------------------------------
(* The query texts and the analysis of one text *)

\* the words the model's query texts are made of
Vocabulary ==
    {
      <<"A", "p", "p", "l", "e">>, <<"g", "a", "r", "m", "i", "n">>, <<"S", "U", "V", "s">>,
      <<"s", "h", "o", "w">>, <<"t", "v">>, <<"w", "h", "a", "t">>, <<"a", "r", "e">>,
      <<"l", "i", "f", "e", "?">>, <<"b", "a", "t", "t", "e", "r", "y">>,
      <<"c", "o", "m", "p", "a", "r", "e">>
    }
Filler == <<"x">>

\* " ".join(words)
RECURSIVE JoinWords(_)
JoinWords(words) ==
    IF words = <<>> THEN <<>>
    ELSE IF Len(words) = 1 THEN words[1]
    ELSE words[1] \o <<" ">> \o JoinWords(Tail(words))

\* the query texts: up to MaxWords words and up to MaxPad fillers, or blanks only
WordSeqs == UNION { [1..n -> Vocabulary] : n \in 0..MaxWords }
QueryTexts ==
    { JoinWords(w \o [i \in 1..pad |-> Filler]) : w \in WordSeqs, pad \in 0..MaxPad }
    \cup UNION { [1..n -> Whitespace] : n \in 1..MaxBlank }

InitAnalyze ==
    /\ IngestIdle
    /\ chunks = CorpusUnique
    /\ SystemIdle
    /\ Bm25Idle
    /\ question \in QueryTexts
    /\ query_analysis = NoAnalysis
    /\ AuthIdle
    /\ ConversationsIdle

\* POST /query: query_analysis = hybrid_searcher._analyze_query(request.question)
Analyze ==
    /\ query_analysis = NoAnalysis
    /\ query_analysis' = AnalyzeQuery(question)
    /\ UNCHANGED <<chunks, ingestvars, storevars, callvars, histvars, bm25vars, question,
                   authvars, convvars>>

NextAnalyze == Analyze

SpecAnalyze == InitAnalyze /\ [][NextAnalyze]_vars

-----------------------------------------------------------------------------
(* A request's credentials through get_current_user and require_admin *)

InitAuth ==
    /\ IngestIdle
    /\ chunks = CorpusUnique
    /\ SystemIdle
    /\ Bm25Idle
    /\ AnalyzeIdle
    /\ auth_config \in [jwks : BOOLEAN, jwt_secret : BOOLEAN]
    /\ credentials \in {NoCredentials} \cup { Bearer(t) : t \in Tokens }
    /\ auth_result = NoAuthResult
    /\ ConversationsIdle

\* Depends(get_current_user)
Authenticate ==
    /\ auth_result.status = 0
    /\ LET r == GetCurrentUser(credentials, auth_config)
       IN auth_result' = [ status |-> r.status, user |-> r.user, method_used |-> r.method_used,
                           admin_status |-> 0 ]
    /\ UNCHANGED <<chunks, ingestvars, storevars, callvars, histvars, bm25vars, analyzevars,
                   auth_config, credentials, convvars>>

\* Depends(require_admin), after get_current_user returned a user
CheckAdmin ==
    /\ auth_result.status = 200 /\ auth_result.admin_status = 0
    /\ auth_result' = [auth_result EXCEPT !.admin_status = RequireAdmin(auth_result.user)]
    /\ UNCHANGED <<chunks, ingestvars, storevars, callvars, histvars, bm25vars, analyzevars,
                   auth_config, credentials, convvars>>

NextAuth == Authenticate \/ CheckAdmin

SpecAuth == InitAuth /\ [][NextAuth]_vars

-----------------------------------------------------------------------------
(* The conversation endpoints, called by the users get_current_user returned *)

InitApi ==
    /\ IngestIdle
    /\ chunks = CorpusUnique
    /\ SystemIdle
    /\ Bm25Idle
    /\ AnalyzeIdle
    /\ AuthIdle
    /\ conversations \in { [c \in ConversationIds |-> NoFile],
                           [c \in ConversationIds |-> IF c = "c2" THEN LegacyFile ELSE NoFile] }
    /\ api = NoRequest

\* POST /query with a conversation_id, once the answer is generated
PostQuery(user, conversation_id) ==
    /\ Len(conversations[conversation_id].messages) < MaxMessages
    /\ conversations' = SaveConversation(conversations, user, conversation_id)
    /\ api' = [ endpoint |-> "query", status |-> 200, user |-> user,
                conversation_id |-> conversation_id, listed |-> {}, messages |-> <<>>,
                file_before |-> conversations[conversation_id] ]
    /\ UNCHANGED <<chunks, ingestvars, storevars, callvars, histvars, bm25vars, analyzevars, authvars>>

\* GET /conversations
ListConversations(user) ==
    /\ api' = [ endpoint |-> "list", status |-> 200, user |-> user, conversation_id |-> "",
                listed |-> ListConversationsReturn(conversations, user), messages |-> <<>>,
                file_before |-> NoFile ]
    /\ UNCHANGED <<chunks, ingestvars, storevars, callvars, histvars, bm25vars, analyzevars, authvars,
                   conversations>>

\* GET /conversations/{conversation_id}
GetConversation(user, conversation_id) ==
    /\ LET r == GetConversationReturn(conversations, user, conversation_id)
       IN api' = [ endpoint |-> "get", status |-> r.status, user |-> user,
                   conversation_id |-> conversation_id, listed |-> {},
                   messages |-> r.messages, file_before |-> conversations[conversation_id] ]
    /\ UNCHANGED <<chunks, ingestvars, storevars, callvars, histvars, bm25vars, analyzevars, authvars,
                   conversations>>

NextApi ==
    \E user \in AuthUsers :
        \/ \E conversation_id \in ConversationIds : PostQuery(user, conversation_id)
        \/ ListConversations(user)
        \/ \E conversation_id \in ConversationIds : GetConversation(user, conversation_id)

SpecApi == InitApi /\ [][NextApi]_vars

-----------------------------------------------------------------------------
(* The ingestion: pdf_processor.main, then chunker.main *)

\* the product folders of data/raw
Folders == { <<"a">>, <<"g">> }

\* the PDF file names of a product folder
FileNames ==
    { <<"U","s","e","r","_","m","a","n","u","a","l">> \o PdfSuffix,
      <<"s","p","e","c","_","m","a","n","u","a","l">> \o PdfSuffix,
      <<"s","p","e","c","s">> \o PdfSuffix,
      <<"r","e","v","i","e","w","_","a">> \o PdfSuffix,
      <<"r","e","v","i","e","w","_","b">> \o PdfSuffix,
      <<"g","u","i","d","e">> \o PdfSuffix }

\* the sets of up to MaxPdfs files, no two of one path, each with MaxPages pages
PdfSets ==
    UNION { { { [ product_name |-> path[1], name |-> path[2], pages |-> pages[path] ] :
                  path \in paths } :
              pages \in [paths -> [1..MaxPages -> 0..MaxChunksPerPage]] } :
            paths \in { P \in SUBSET (Folders \X FileNames) :
                          Cardinality(P) >= 1 /\ Cardinality(P) <= MaxPdfs } }

InitIngest ==
    /\ pdf_files \in PdfSets
    /\ documents = <<>>
    /\ all_chunks = <<>>
    /\ ingest = "raw"
    /\ chunks = CorpusUnique
    /\ SystemIdle
    /\ Bm25Idle
    /\ AnalyzeIdle
    /\ AuthIdle
    /\ ConversationsIdle

\* pdf_processor.main: process_directory, then save_documents
RunPdfProcessor ==
    /\ ingest = "raw"
    /\ documents' = ProcessDirectory(pdf_files)
    /\ ingest' = "processed"
    /\ UNCHANGED <<chunks, storevars, callvars, histvars, bm25vars, analyzevars, authvars,
                   convvars, pdf_files, all_chunks>>

\* chunker.main: chunk_all_documents, then save_chunks
RunChunker ==
    /\ ingest = "processed"
    /\ all_chunks' = ChunkAllDocuments(documents)
    /\ ingest' = "chunked"
    /\ UNCHANGED <<chunks, storevars, callvars, histvars, bm25vars, analyzevars, authvars,
                   convvars, pdf_files, documents>>

NextIngest == RunPdfProcessor \/ RunChunker

SpecIngest == InitIngest /\ [][NextIngest]_vars

-----------------------------------------------------------------------------
(* Reading a call's lists: helpers of the properties below *)

Called == outcome = "ok"

TargetGiven == ~call.target_products.isNone /\ Len(call.target_products.items) > 0

\* the entities of the target list
TargetEntities == { call.target_products.items[i] : i \in 1..Len(call.target_products.items) }

PassesFilter(product_name) == TargetGiven => product_name \in TargetEntities

\* the ranks at which a method's list holds a chunk with this chunk_id
RanksOf(results, chunk_id) == { i \in 1..Len(results) : results[i].chunk.chunk_id = chunk_id }

\* the contribution 1/(K+rank) of a method, nothing when it did not return the chunk
Contribution(rank) == IF rank = None THEN 0 ELSE ScoreUnit \div (rrf_k + rank)

ChunkIds(results) == { results[i].chunk_id : i \in 1..Len(results) }

CountOf(results, product_name) ==
    Cardinality({ i \in 1..Len(results) : results[i].chunk.product_name = product_name })

PoolProducts == AllProducts(sorted_results)

-----------------------------------------------------------------------------
(* C1 *)

\* C1: the rrf_score of every fused chunk is the sum, over the methods that returned
\* it, of 1/(K+rank), rank being the chunk's one rank in that method's list: the
\* recorded bm25_rank / vector_rank is a rank at which that method returned the chunk
\* (None when it did not), and the score is the sum of those one or two contributions.
C1_RrfScoreIsSumOfContributions ==
    Called =>
        \A i \in 1..Len(sorted_results) :
            LET e == sorted_results[i]
                b == RanksOf(bm25_results, e.chunk_id)
                v == RanksOf(vector_results, e.chunk_id)
            IN /\ (b = {}) = (e.bm25_rank = None)
               /\ (v = {}) = (e.vector_rank = None)
               /\ b # {} => e.bm25_rank \in b
               /\ v # {} => e.vector_rank \in v
               /\ e.rrf_score = Contribution(e.bm25_rank) + Contribution(e.vector_rank)

\* the same property where no method returned one chunk_id twice: it holds there
C1_HoldsForDistinctIds ==
    (Called /\ \A id \in ChunkIds(sorted_results) :
                  /\ Cardinality(RanksOf(bm25_results, id)) <= 1
                  /\ Cardinality(RanksOf(vector_results, id)) <= 1)
    => C1_RrfScoreIsSumOfContributions

-----------------------------------------------------------------------------
(* C2 *)

\* the chunk_ids a method returned within its window that pass the target filter
ReturnedIds(results) ==
    { results[i].chunk.chunk_id :
        i \in { j \in 1..Len(results) : PassesFilter(results[j].chunk.product_name) } }

\* the chunks a method returned within its window that pass the target filter
ReturnedChunks(results) ==
    { results[i].chunk :
        i \in { j \in 1..Len(results) : PassesFilter(results[j].chunk.product_name) } }

FusedChunks == { sorted_results[i].chunk : i \in 1..Len(sorted_results) }

\* C2: a chunk that passes the target filter is a fused candidate iff the lexical or
\* the vector search returned it within the retrieve_k window; in every fused result
\* bm25_rank and bm25_score are non-null exactly when the lexical search returned the
\* result's chunk, vector_rank and vector_score exactly when the vector search did, and
\* one of the ranks is non-null.
C2_FusedSetIsUnionOfWindows ==
    Called =>
        /\ Len(bm25_results) <= call.retrieve_k /\ Len(vector_results) <= call.retrieve_k
        /\ FusedChunks = ReturnedChunks(bm25_results) \cup ReturnedChunks(vector_results)
        /\ \A i \in 1..Len(sorted_results) :
              LET e == sorted_results[i]
              IN /\ (e.bm25_rank # None) = (e.chunk \in ReturnedChunks(bm25_results))
                 /\ (e.bm25_score # None) = (e.chunk \in ReturnedChunks(bm25_results))
                 /\ (e.vector_rank # None) = (e.chunk \in ReturnedChunks(vector_results))
                 /\ (e.vector_score # None) = (e.chunk \in ReturnedChunks(vector_results))
                 /\ (e.bm25_rank # None \/ e.vector_rank # None)
        /\ \A i \in 1..Len(final_results) :
              \E j \in 1..Len(sorted_results) : final_results[i] = sorted_results[j]

\* the same property read on chunk_ids, the keys of the fused map: it holds, also
\* where two chunks share a chunk_id
C2_HoldsForChunkIds ==
    Called =>
        /\ Len(bm25_results) <= call.retrieve_k /\ Len(vector_results) <= call.retrieve_k
        /\ ChunkIds(sorted_results) = ReturnedIds(bm25_results) \cup ReturnedIds(vector_results)
        /\ \A i \in 1..Len(sorted_results) :
              LET e == sorted_results[i]
              IN /\ (e.bm25_rank # None) = (e.chunk_id \in ReturnedIds(bm25_results))
                 /\ (e.bm25_score # None) = (e.chunk_id \in ReturnedIds(bm25_results))
                 /\ (e.vector_rank # None) = (e.chunk_id \in ReturnedIds(vector_results))
                 /\ (e.vector_score # None) = (e.chunk_id \in ReturnedIds(vector_results))
                 /\ (e.bm25_rank # None \/ e.vector_rank # None)
        /\ \A i \in 1..Len(final_results) :
              \E j \in 1..Len(sorted_results) : final_results[i] = sorted_results[j]

\* the chunk-level property where the corpus holds no chunk_id twice: it holds there
C2_HoldsForDistinctIds ==
    (\A a, b \in 1..Len(chunks) : chunks[a].chunk_id = chunks[b].chunk_id => a = b)
    => C2_FusedSetIsUnionOfWindows

\* a call whose candidates hold a lexical-only, a vector-only and a common chunk, and
\* whose filter discarded a hit
C2_Witness ==
    /\ Called /\ TargetGiven
    /\ \E i \in 1..Len(bm25_results) : ~PassesFilter(bm25_results[i].chunk.product_name)
    /\ \E i, j, k \in 1..Len(sorted_results) :
          /\ sorted_results[i].bm25_rank # None /\ sorted_results[i].vector_rank = None
          /\ sorted_results[j].bm25_rank = None /\ sorted_results[j].vector_rank # None
          /\ sorted_results[k].bm25_rank # None /\ sorted_results[k].vector_rank # None
    /\ final_results # <<>>

-----------------------------------------------------------------------------
(* C3 *)

\* C3: with a non-empty target list T every returned chunk has its product_name in T,
\* and no chunk of another entity is among the fused candidates, with or without
\* diversity balancing.
C3_TargetFilter ==
    (Called /\ TargetGiven) =>
        /\ \A i \in 1..Len(sorted_results) :
              sorted_results[i].chunk.product_name \in TargetEntities
        /\ \A i \in 1..Len(final_results) :
              final_results[i].chunk.product_name \in TargetEntities

\* a filtered call, balancing requested, both methods returned a chunk of another entity
C3_Witness ==
    /\ Called /\ TargetGiven /\ call.apply_diversity
    /\ \E i \in 1..Len(bm25_results) : bm25_results[i].chunk.product_name \notin TargetEntities
    /\ \E i \in 1..Len(vector_results) : vector_results[i].chunk.product_name \notin TargetEntities
    /\ Len(final_results) >= 2

-----------------------------------------------------------------------------
(* C4 *)

\* C4: search_hybrid returns exactly min(top_k, size of the fused candidate pool)
\* results, so never more than top_k, with balancing and with plain truncation.
C4_ResultLength ==
    Called =>
        /\ Len(final_results) = Min(call.top_k, Len(sorted_results))
        /\ Len(final_results) <= call.top_k

\* balancing substituted a chunk and the pool was larger than top_k
C4_Witness ==
    /\ Called
    /\ ShouldApplyDiversity(call.target_products, call.apply_diversity)
    /\ Len(sorted_results) > call.top_k
    /\ final_results # Take(sorted_results, call.top_k)

-----------------------------------------------------------------------------
(* C5 *)

\* C5: balancing requested, no target filter (target_products None or empty), two
\* entities in the pool, top_k >= 2: when each entity has at least
\* m = max(1, top_k // 2) chunks in the pool, the returned list has at least m chunks
\* of each entity.
C5_DiversityLowerBound ==
    ( /\ Called /\ call.apply_diversity /\ ~TargetGiven
      /\ call.top_k >= 2
      /\ Cardinality(PoolProducts) = 2
      /\ \A p \in PoolProducts : CountOf(sorted_results, p) >= MinChunksPerProduct(call.top_k) )
    => \A p \in PoolProducts : CountOf(final_results, p) >= MinChunksPerProduct(call.top_k)

\* the same property for target_products = None, where the balancing step runs: it
\* holds there
C5_HoldsForNone ==
    ( /\ Called /\ call.apply_diversity /\ call.target_products.isNone
      /\ call.top_k >= 2
      /\ Cardinality(PoolProducts) = 2
      /\ \A p \in PoolProducts : CountOf(sorted_results, p) >= MinChunksPerProduct(call.top_k) )
    => \A p \in PoolProducts : CountOf(final_results, p) >= MinChunksPerProduct(call.top_k)

\* m = 2, the top_k best candidates held fewer than 2 chunks of an entity
C5_Witness ==
    /\ Called /\ call.apply_diversity /\ call.target_products.isNone
    /\ MinChunksPerProduct(call.top_k) = 2
    /\ Cardinality(PoolProducts) = 2
    /\ \A p \in PoolProducts : CountOf(sorted_results, p) >= 2
    /\ \E p \in PoolProducts : CountOf(Take(sorted_results, call.top_k), p) < 2
    /\ \A p \in PoolProducts : CountOf(final_results, p) >= 2

-----------------------------------------------------------------------------
(* C6 *)

\* C6: when apply_diversity is false, or exactly one entity is targeted, or the pool
\* holds chunks of one entity only, the result is the first top_k fused candidates in
\* descending RRF order, with no substitution.
C6_NoBalancing ==
    ( /\ Called
      /\ \/ ~call.apply_diversity
         \/ (TargetGiven /\ Cardinality(TargetEntities) = 1)
         \/ Cardinality(PoolProducts) <= 1 )
    => /\ final_results = Take(sorted_results, call.top_k)
       /\ \A i \in 1..(Len(final_results) - 1) :
             final_results[i].rrf_score >= final_results[i + 1].rrf_score

\* balancing was switched off where it would have substituted a chunk
C6_Witness ==
    /\ Called /\ ~call.apply_diversity /\ call.target_products.isNone
    /\ EnsureProductDiversity(sorted_results, call.top_k) # Take(sorted_results, call.top_k)
    /\ final_results = Take(sorted_results, call.top_k)

\* the balancing step runs on a pool of one entity (a list naming one entity twice)
C6_WitnessOneEntityPool ==
    /\ Called /\ ShouldApplyDiversity(call.target_products, call.apply_diversity)
    /\ Cardinality(PoolProducts) = 1
    /\ Len(sorted_results) > call.top_k /\ call.top_k >= 2

-----------------------------------------------------------------------------
(* C7 *)

\* C7: balancing is applied exactly when apply_diversity is true and the target set is
\* empty (None or an empty collection) or holds more than one entity; in every other
\* case the sorted list is only truncated to top_k.
C7_BalancingCondition ==
    Called =>
        IF call.apply_diversity /\ (~TargetGiven \/ Cardinality(TargetEntities) > 1)
        THEN final_results = EnsureProductDiversity(sorted_results, call.top_k)
        ELSE final_results = Take(sorted_results, call.top_k)

-----------------------------------------------------------------------------
(* C8 *)

\* C8: two search_hybrid calls of one searcher with identical arguments and no indexing
\* operation between them return identical ordered lists (ids, scores, ranks, order),
\* whatever else happened between them: other searches, a release of the client.
C8_SameArgumentsSameResults ==
    (outcome = "ok" /\ prev.valid /\ prev.call = call /\ ~prev.indexed)
    => final_results = prev.final

\* the client was released between two calls with the same arguments
C8_Witness ==
    /\ outcome = "ok" /\ prev.valid /\ prev.call = call /\ ~prev.indexed
    /\ prev.released
    /\ final_results # <<>>

-----------------------------------------------------------------------------
(* C9 *)

\* C9: when a lookup raises during search_hybrid, the call raises to its caller and
\* returns no list: there is no lexical-only or vector-only result.
C9_LookupErrorPropagates ==
    raised => (outcome = "error" /\ final_results = <<>> /\ sorted_results = <<>>)

\* the vector lookup raised while the lexical lookup had returned hits
C9_Witness ==
    /\ raised /\ outcome = "error"
    /\ bm25_results # <<>>
    /\ lock = "indexer"

-----------------------------------------------------------------------------
(* C10 *)

\* C10: VectorStore.search leaves the stored points as they were, in every state of the
\* store, also when its client is not initialized or was released.
C10_SearchKeepsPoints ==
    searched => points = points_before

-----------------------------------------------------------------------------
(* C11 *)

\* C11: when another process holds the vector store's storage, initializing the client
\* from the HybridSearcher constructor or lazily from VectorStore.search fails after one
\* acquisition attempt: the error reaches the caller (no searcher is constructed, the
\* search returns no list), the client stays unset and the stored points are untouched.
C11_LockedStorageFailsOnce ==
    (init_try.path \in {"constructor", "search"} /\ init_try.held)
    => /\ init_try.raised
       /\ init_try.attempts = 1
       /\ ~client
       /\ points = init_try.points_before
       /\ init_try.path = "constructor" => ~hybrid_searcher
       /\ init_try.path = "search" =>
             outcome = "error" /\ final_results = <<>> /\ sorted_results = <<>>

\* the lazy initialization of a search met the lock of the indexing process, which
\* had uploaded points
C11_Witness ==
    /\ init_try.path = "search" /\ init_try.held /\ init_try.raised
    /\ lock = "indexer" /\ points # {}

\* the constructor met the lock of the indexing process
C11_WitnessConstructor ==
    /\ init_try.path = "constructor" /\ init_try.held /\ init_try.raised
    /\ lock = "indexer" /\ points # {}

-----------------------------------------------------------------------------
(* C12 *)

\* the corpus positions of the returned pairs, in the order returned: the positions
\* are read off the pairs (a chunk and its score), which two positions can share
ReturnedPositions(results, corpus, scores) ==
    { p \in [1..Len(results) -> 1..Len(corpus)] :
        /\ \A i \in 1..Len(results) : results[i] = <<corpus[p[i]], scores[p[i]]>>
        /\ \A i, j \in 1..Len(results) : i # j => p[i] # p[j] }

\* C12: BM25Index.search(query, top_k) returns at most top_k (chunk, score) pairs, in
\* non-increasing score order, and chunks with equal scores appear in ascending order
\* of their position in the corpus.
C12_SearchOrder ==
    (bm25_op.op = "search" /\ ~bm25_op.raised) =>
        LET results == bm25_op.results
            corpus == bm25_index.chunks.value
        IN /\ Len(results) <= bm25_op.top_k
           /\ \A i \in 1..(Len(results) - 1) : results[i][2] >= results[i + 1][2]
           /\ \E p \in ReturnedPositions(results, corpus, bm25_op.scores) :
                 \A i \in 1..(Len(results) - 1) :
                     results[i][2] = results[i + 1][2] => p[i] < p[i + 1]

\* a search that cut a run of equal scores: three chunks tie, two of them are returned
C12_Witness ==
    /\ bm25_op.op = "search" /\ ~bm25_op.raised
    /\ bm25_op.top_k = 3 /\ Len(bm25_op.results) = 3
    /\ bm25_op.results[1][2] > bm25_op.results[2][2]
    /\ bm25_op.results[2][2] = bm25_op.results[3][2]
    /\ Cardinality({ i \in 1..Len(bm25_op.scores) : bm25_op.scores[i] = bm25_op.results[3][2] }) = 3

-----------------------------------------------------------------------------
(* C13 *)

\* what the last operation found and left: it raised exactly when its prerequisite was
\* missing, and a raising operation changed neither the object nor the file
PrerequisiteChecked ==
    /\ bm25_op.op = "search" => (bm25_op.raised <=> bm25_op.self_before.bm25.isNone)
    /\ bm25_op.op = "build_index" => (bm25_op.raised <=> bm25_op.self_before.chunks.isNone)
    /\ bm25_op.op = "save" => (bm25_op.raised <=> bm25_op.self_before.bm25.isNone)
    /\ bm25_op.raised =>
          /\ bm25_index = bm25_op.self_before
          /\ pickle_file = bm25_op.file_before
          /\ bm25_op.results = <<>>

\* a search that follows a successful load() or build_index() does not raise
SearchAfterLoadOrBuild ==
    (/\ bm25_op.op \in {"load", "build_index"} /\ ~bm25_op.raised
     /\ bm25_op'.op = "search")
    => ~bm25_op'.raised

\* C13: an operation invoked before its prerequisite fails with an error and leaves
\* the index state unchanged (search with no index built or loaded, build_index with
\* no chunks loaded, save with no index built); after load(), or after load_chunks()
\* then build_index(), search succeeds.
C13_Prerequisites == []PrerequisiteChecked /\ [][SearchAfterLoadOrBuild]_vars

\* search succeeded on an index built by load_chunks() and build_index(): no pickle
\* exists that load() could have read
C13_Witness ==
    /\ bm25_op.op = "search" /\ ~bm25_op.raised /\ Len(bm25_op.results) > 0
    /\ pickle_file = Nothing

\* search raised on an object that has its chunks but no index
C13_WitnessRaised ==
    /\ bm25_op.op = "search" /\ bm25_op.raised
    /\ ~bm25_index.chunks.isNone /\ bm25_index.bm25.isNone

-----------------------------------------------------------------------------
(* C14 *)

Analyzed == query_analysis # NoAnalysis

\* the entities the analysis reports as detected
DetectedEntities ==
    { query_analysis.target_products[i] : i \in 1..Len(query_analysis.target_products) }

\* the lowercased query text holds one of the markers as a substring
HasMarker(markers) == \E m \in markers : Contains(QueryLower(question), m)

\* C14: is_comparison is true iff two or more entities are detected or the lowercased
\* query holds a comparison marker as a substring; one entity and no marker is not a
\* comparison, both entities are a comparison without any marker.
C14_ComparisonDetection ==
    Analyzed =>
        /\ query_analysis.is_comparison
             <=> (Cardinality(DetectedEntities) >= 2 \/ HasMarker(comparison_terms))
        /\ (Cardinality(DetectedEntities) = 1 /\ ~HasMarker(comparison_terms))
             => ~query_analysis.is_comparison
        /\ DetectedEntities = {Apple, Garmin} => query_analysis.is_comparison

\* both entities and no marker: a comparison
C14_Witness ==
    /\ Analyzed /\ DetectedEntities = {Apple, Garmin}
    /\ ~HasMarker(comparison_terms) /\ query_analysis.is_comparison

\* one entity and no marker: not a comparison
C14_WitnessOneEntity ==
    /\ Analyzed /\ DetectedEntities = {Apple}
    /\ ~HasMarker(comparison_terms) /\ ~query_analysis.is_comparison

-----------------------------------------------------------------------------
(* C15 *)

\* C15: the complexity is "complex" iff the lowercased query holds a complexity marker
\* as a substring, or the query has more than one question mark, or more than 15
\* whitespace-separated words; top_k is 8 exactly when the complexity is "complex" and
\* 5 otherwise, whatever is_comparison and the detected entities are.
C15_ComplexityAndTopK ==
    Analyzed =>
        /\ query_analysis.complexity \in {"complex", "simple"}
        /\ query_analysis.complexity = "complex"
             <=> \/ HasMarker(complexity_indicators)
                 \/ CountQuestionMarks(question) > 1
                 \/ WordCount(question) > 15
        /\ query_analysis.top_k = IF query_analysis.complexity = "complex" THEN 8 ELSE 5

\* sixteen words and nothing else make a query complex
C15_Witness ==
    /\ Analyzed /\ WordCount(question) = 16
    /\ ~HasMarker(complexity_indicators) /\ CountQuestionMarks(question) <= 1
    /\ query_analysis.complexity = "complex" /\ query_analysis.top_k = 8

\* fifteen words, a comparison of both entities: simple, top_k 5
C15_WitnessFifteenWords ==
    /\ Analyzed /\ WordCount(question) = 15
    /\ query_analysis.is_comparison /\ DetectedEntities = {Apple, Garmin}
    /\ query_analysis.complexity = "simple" /\ query_analysis.top_k = 5

-----------------------------------------------------------------------------
(* C16 *)

\* the text is empty or holds whitespace only
Blank(text) == \A i \in 1..Len(text) : text[i] \in Whitespace

\* C16: the analyzer never raises on a text, and for the empty string and every
\* whitespace-only string it returns no target entities, is_comparison false,
\* complexity "simple" and top_k 5.
C16_BlankQuery ==
    Analyzed =>
        /\ ~query_analysis.raised
        /\ Blank(question) =>
              /\ query_analysis.target_products = <<>>
              /\ ~query_analysis.is_comparison
              /\ query_analysis.complexity = "simple"
              /\ query_analysis.top_k = 5

\* a whitespace-only text was analysed
C16_Witness ==
    /\ Analyzed /\ Blank(question) /\ Len(question) = 2
    /\ query_analysis.complexity = "simple"

\* the empty text was analysed
C16_WitnessEmpty ==
    /\ Analyzed /\ question = <<>> /\ query_analysis.top_k = 5

-----------------------------------------------------------------------------
(* C17 *)

\* the chunk_ids of a list of hits or of results, in order
HitIds(results) == [ i \in 1..Len(results) |-> results[i].chunk.chunk_id ]

\* the end-to-end scenario: chunk_A1 = a1, chunk_A2 = a2, chunk_B1 = g1, chunk_B2 = g2;
\* the lexical search returned [a1, g1], the vector search [g1, a2]
Scenario ==
    /\ Called
    /\ HitIds(bm25_results) = <<"a1", "g1">>
    /\ HitIds(vector_results) = <<"g1", "a2">>

\* C17: in the scenario, with no filter and top_k >= 3, search_hybrid returns the chunks
\* in the order chunk_B1, chunk_A1, chunk_A2, and chunk_B2 is not in the result.
C17_ScenarioOrder ==
    (Scenario /\ ~TargetGiven /\ call.top_k >= 3)
    => /\ HitIds(final_results) = <<"g1", "a1", "a2">>
       /\ \A i \in 1..Len(final_results) : final_results[i].chunk_id # "g2"

\* the scenario with top_k = 4 and balancing requested
C17_Witness ==
    /\ Scenario /\ call.target_products.isNone /\ call.apply_diversity /\ call.top_k = 4
    /\ Len(final_results) = 3

-----------------------------------------------------------------------------
(* C18 *)

\* the fused score of a candidate
ScoreOf(chunk_id) ==
    LET i == CHOOSE j \in 1..Len(sorted_results) : sorted_results[j].chunk_id = chunk_id
    IN sorted_results[i].rrf_score

\* C18, as the specification states it: in the scenario the fused scores are
\* chunk_B1 = 1/61 + 1/60, chunk_A1 = 1/61 and chunk_A2 = 1/61, so that chunk_A1 and
\* chunk_A2 tie.
C18_ScenarioScoresAsStated ==
    (Scenario /\ ~TargetGiven)
    => /\ ScoreOf("g1") * 61 * 60 = ScoreUnit * (60 + 61)
       /\ ScoreOf("a1") * 61 = ScoreUnit
       /\ ScoreOf("a2") * 61 = ScoreUnit
       /\ ScoreOf("a1") = ScoreOf("a2")

\* C18, amended: in the scenario the fused scores are chunk_B1 = 1/62 + 1/61 (lexical
\* rank 2, vector rank 1), chunk_A1 = 1/61 (lexical rank 1) and chunk_A2 = 1/62 (vector
\* rank 2); chunk_A1 and chunk_A2 do not tie, the score alone puts chunk_A1 first.
C18_ScenarioScores ==
    (Scenario /\ ~TargetGiven)
    => /\ ScoreOf("g1") * 62 * 61 = ScoreUnit * (61 + 62)
       /\ ScoreOf("a1") * 61 = ScoreUnit
       /\ ScoreOf("a2") * 62 = ScoreUnit
       /\ ScoreOf("a1") > ScoreOf("a2")
       /\ HitIds(sorted_results) = <<"g1", "a1", "a2">>

\* the scenario was fused
C18_Witness ==
    /\ Scenario /\ call.target_products.isNone /\ ~call.apply_diversity
    /\ Len(sorted_results) = 3 /\ ScoreOf("g1") > ScoreOf("a1")

-----------------------------------------------------------------------------
(* C19 *)

\* the token's signature is one that a configured verification accepts: a JWKS key
\* (RS256/ES256) or the JWT secret (HS256), on a token that is in order otherwise
SignatureVerified ==
    /\ ~credentials.isNone
    /\ credentials.token.decodable /\ credentials.token.claims_valid
    /\ \/ auth_config.jwks /\ credentials.token.signed_by = "jwks"
       \/ auth_config.jwt_secret /\ credentials.token.signed_by = "hs256"

\* C19: get_current_user returns an AuthUser only for a bearer token whose signature
\* was verified; a request with no token, or with a token that fails every
\* verification, gets 401, so the user id and the admin flag never come from an
\* unverified token.
C19_OnlyVerifiedTokens ==
    auth_result.status # 0 =>
        /\ auth_result.status = 200 => SignatureVerified
        /\ ~SignatureVerified => (auth_result.status = 401 /\ auth_result.user = NoUser)
        /\ auth_result.admin_status = 200 => SignatureVerified

\* the part of C19 that holds: a request without credentials, or with a token that
\* cannot be decoded, gets 401
C19_HoldsForNoToken ==
    (auth_result.status # 0 /\ (credentials.isNone \/ ~credentials.token.decodable))
    => (auth_result.status = 401 /\ auth_result.user = NoUser)

-----------------------------------------------------------------------------
(* C20 *)

\* what a user who is no admin got to read belongs to that user
ReadsOwnOnly ==
    ~api.user.is_admin =>
        /\ api.endpoint = "list" =>
              \A c \in api.listed : conversations[c].user_id = api.user.id
        /\ (api.endpoint = "get" /\ conversations[api.conversation_id].exists) =>
              IF conversations[api.conversation_id].user_id = api.user.id
              THEN api.status = 200
              ELSE api.status = 403 /\ api.messages = <<>>

\* a query left the file of another user's conversation as it was
AppendsToOwnOnly ==
    (/\ api.endpoint = "query" /\ api.file_before.exists
     /\ api.file_before.user_id # api.user.id)
    => conversations[api.conversation_id] = api.file_before

\* an admin got to read every conversation
AdminReadsAll ==
    api.user.is_admin =>
        /\ api.endpoint = "list" =>
              api.listed = { c \in ConversationIds : conversations[c].exists }
        /\ (api.endpoint = "get" /\ conversations[api.conversation_id].exists) =>
              /\ api.status = 200
              /\ api.messages = conversations[api.conversation_id].messages

\* C20: after any sequence of requests, a user who is no admin reads through
\* GET /conversations and GET /conversations/{id} only conversations whose stored
\* user_id is their own id (403 or omission otherwise), a POST /query of a user never
\* appends messages to a conversation file whose stored user_id is another user's, and
\* admins read every conversation.
C20_ConversationIsolation == ReadsOwnOnly /\ AppendsToOwnOnly /\ AdminReadsAll

\* the part of C20 that holds: the reads of conversations that users own, and the
\* reads of admins
C20_HoldsForOwnedReads ==
    /\ AdminReadsAll
    /\ (~api.user.is_admin /\ api.endpoint = "list") =>
          \A c \in api.listed : conversations[c].user_id \in {api.user.id, "anonymous"}
    /\ (/\ ~api.user.is_admin /\ api.endpoint = "get"
        /\ conversations[api.conversation_id].exists
        /\ conversations[api.conversation_id].user_id \notin {api.user.id, "anonymous"})
       => api.status = 403 /\ api.messages = <<>>

-----------------------------------------------------------------------------
(* C21 *)

\* the ranks at which a method's list holds this chunk_id in a hit that passes the filter
KeptRanksOf(results, chunk_id) ==
    { i \in RanksOf(results, chunk_id) : PassesFilter(results[i].chunk.product_name) }

Lowest(S) == CHOOSE x \in S : \A y \in S : x <= y

\* when the two loops first insert a chunk_id into the fused map: the lexical hits at
\* their lexical rank, then the chunks of the vector loop alone at their vector rank
FirstInsertion(chunk_id) ==
    IF KeptRanksOf(bm25_results, chunk_id) # {}
    THEN Lowest(KeptRanksOf(bm25_results, chunk_id))
    ELSE Len(bm25_results) + Lowest(KeptRanksOf(vector_results, chunk_id))

\* C21: before truncation or balancing the fused candidates are in descending order of
\* rrf_score, and candidates of equal score are in the order of their first insertion:
\* lexical hits in lexical rank order, then vector-only chunks in vector rank order.
C21_SortOrder ==
    Called =>
        \A i, j \in 1..Len(sorted_results) :
            i < j =>
                \/ sorted_results[i].rrf_score > sorted_results[j].rrf_score
                \/ /\ sorted_results[i].rrf_score = sorted_results[j].rrf_score
                   /\ FirstInsertion(sorted_results[i].chunk_id)
                        < FirstInsertion(sorted_results[j].chunk_id)

\* a lexical hit and a vector-only chunk of equal score, and a strictly better candidate
\* that was inserted after both
C21_Witness ==
    /\ Called
    /\ \E i, j, k \in 1..Len(sorted_results) :
         /\ k < i /\ i < j
         /\ sorted_results[i].rrf_score = sorted_results[j].rrf_score
         /\ sorted_results[i].bm25_rank # None
         /\ sorted_results[j].bm25_rank = None
         /\ sorted_results[k].rrf_score > sorted_results[i].rrf_score
         /\ FirstInsertion(sorted_results[k].chunk_id)
              > FirstInsertion(sorted_results[i].chunk_id)

-----------------------------------------------------------------------------
(* C22 *)

\* a list of results in descending order of rrf_score
Ranked(results) ==
    \A i \in 1..(Len(results) - 1) : results[i].rrf_score >= results[i + 1].rrf_score

\* C22: the list search_hybrid returns is ranked, with or without diversity balancing:
\* the rrf_score at position i is greater than or equal to the one at position i+1.
C22_ResultIsRanked == Called => Ranked(final_results)

\* the same property for the calls that only truncate the sorted list: it holds there
C22_HoldsWithoutBalancing ==
    (Called /\ ~ShouldApplyDiversity(call.target_products, call.apply_diversity))
    => Ranked(final_results)

\* the same property for the calls in which balancing substituted nothing: it holds there
C22_HoldsWithoutSubstitution ==
    (Called /\ final_results = Take(sorted_results, call.top_k)) => Ranked(final_results)

-----------------------------------------------------------------------------
(* C23 *)

\* the 1-indexed position of hit i among the hits of its list that pass the filter
FilteredRank(results, i) ==
    Cardinality({ j \in 1..i : PassesFilter(results[j].chunk.product_name) })

\* the filtered ranks at which a method's list holds this chunk_id
FilteredRanksOf(results, chunk_id) ==
    { FilteredRank(results, i) : i \in KeptRanksOf(results, chunk_id) }

\* C23: with a non-empty target_products, the rank of a hit's RRF contribution is its
\* 1-indexed position among the hits of that method that pass the entity filter: the
\* recorded ranks are filtered ranks and the score is the sum of their contributions.
C23_RanksOverFilteredSet ==
    (Called /\ TargetGiven) =>
        \A i \in 1..Len(sorted_results) :
            LET e == sorted_results[i]
                b == FilteredRanksOf(bm25_results, e.chunk_id)
                v == FilteredRanksOf(vector_results, e.chunk_id)
            IN /\ (b = {}) = (e.bm25_rank = None)
               /\ (v = {}) = (e.vector_rank = None)
               /\ b # {} => e.bm25_rank \in b
               /\ v # {} => e.vector_rank \in v
               /\ e.rrf_score = Contribution(e.bm25_rank) + Contribution(e.vector_rank)

\* no discarded hit precedes a hit that passes the filter
NothingDiscardedBefore(results) ==
    \A i, j \in 1..Len(results) :
        (i < j /\ PassesFilter(results[j].chunk.product_name))
        => PassesFilter(results[i].chunk.product_name)

\* the same property where the discarded hits are behind the kept ones: it holds there
C23_HoldsWhenNothingDiscardedBefore ==
    ( /\ NothingDiscardedBefore(bm25_results) /\ NothingDiscardedBefore(vector_results)
      /\ \A id \in ChunkIds(sorted_results) :
            /\ Cardinality(RanksOf(bm25_results, id)) <= 1
            /\ Cardinality(RanksOf(vector_results, id)) <= 1 )
    => C23_RanksOverFilteredSet

\* C23 on the corpus of distinct chunk_ids: the ranks are not filtered ranks there either
C23_RanksOverFilteredSetDistinctIds == (chunks = CorpusUnique) => C23_RanksOverFilteredSet

-----------------------------------------------------------------------------
(* C24 *)

\* the sorted candidates and the returned list of the call had the vector contributions
\* been accumulated before the lexical ones
SortedVectorFirst ==
    LET items == FuseScoresVectorFirst(bm25_results, vector_results, call.target_products)
    IN SortByRrfScore(items, Len(items))

FinalVectorFirst ==
    FinalResults(SortedVectorFirst, call.top_k, call.target_products, call.apply_diversity)

Elements(seq) == { seq[i] : i \in 1..Len(seq) }

\* no two candidates of the list have the same rrf_score
NoTies(results) ==
    \A i, j \in 1..Len(results) : i # j => results[i].rrf_score # results[j].rrf_score

\* C24 as stated: accumulating the vector contributions before the lexical ones yields
\* the same chunk ids, the same RRF scores and the same result order.
C24_FusionCommutes ==
    Called => /\ SortedVectorFirst = sorted_results
              /\ FinalVectorFirst = final_results

\* C24, amended: accumulating the vector contributions first yields the same fused
\* candidates (chunk ids, RRF scores, ranks), in descending score order; the sorted list
\* and the returned list are the same whenever no two candidates have equal scores.
\* Candidates of equal score follow the order of accumulation.
C24_FusionCommutesUpToTies ==
    Called =>
        /\ Elements(SortedVectorFirst) = Elements(sorted_results)
        /\ Len(SortedVectorFirst) = Len(sorted_results)
        /\ Ranked(SortedVectorFirst)
        /\ NoTies(sorted_results) =>
              /\ SortedVectorFirst = sorted_results
              /\ FinalVectorFirst = final_results

\* no ties: both methods contributed, one chunk came from both, and the two orders of
\* accumulation insert the candidates in different orders
C24_Witness ==
    /\ Called /\ NoTies(sorted_results) /\ Len(sorted_results) >= 3
    /\ \E i \in 1..Len(sorted_results) :
         sorted_results[i].bm25_rank # None /\ sorted_results[i].vector_rank # None
    /\ FuseScoresVectorFirst(bm25_results, vector_results, call.target_products)
         # FuseScores(bm25_results, vector_results, call.target_products)
    /\ Len(final_results) >= 2

\* ties: the candidates are the same and the returned lists differ
C24_WitnessTies ==
    /\ Called /\ ~NoTies(sorted_results)
    /\ Elements(SortedVectorFirst) = Elements(sorted_results)
    /\ ChunkIds(FinalVectorFirst) # ChunkIds(final_results)

-----------------------------------------------------------------------------
(* C25 *)

Balanced == Called /\ ShouldApplyDiversity(call.target_products, call.apply_diversity)

\* the substitutions balancing made in the call
Substitutions ==
    LET first == Take(sorted_results, call.top_k)
    IN SecondPassSteps(sorted_results, 1, first, CountProducts(first, Len(first)),
                       MinChunksPerProduct(call.top_k))

\* the list after the last substitution
AfterSubstitutions ==
    IF Substitutions = <<>> THEN Take(sorted_results, call.top_k)
    ELSE Substitutions[Len(Substitutions)].final_after

\* C25: with m = max(1, top_k // 2), every substitution removes the lowest-RRF included
\* result among the entities whose current count is strictly above m and inserts the
\* best-ranked not-yet-included chunk of an entity whose current count is strictly below
\* m; at every step no entity that had at least m results is reduced below m and no
\* entity is raised above m by a substitution.
C25_SubstitutionInvariants ==
    Balanced =>
        /\ final_results = AfterSubstitutions
        /\ \A n \in 1..Len(Substitutions) :
             LET st == Substitutions[n]
                 m == MinChunksPerProduct(call.top_k)
                 evicted == st.final[st.min_score_idx]
                 inserted == sorted_results[st.position]
             IN /\ st.counts[evicted.chunk.product_name] > m
                /\ \A i \in 1..Len(st.final) :
                      st.counts[st.final[i].chunk.product_name] > m
                      => evicted.rrf_score <= st.final[i].rrf_score
                /\ st.counts[inserted.chunk.product_name] < m
                /\ ~InFinal(st.final, inserted.chunk_id)
                /\ \A j \in 1..(st.position - 1) :
                      ~InFinal(st.final, sorted_results[j].chunk_id)
                      => st.counts[sorted_results[j].chunk.product_name] >= m
                /\ st.final_after = [st.final EXCEPT ![st.min_score_idx] = inserted]
                /\ \A p \in Products :
                      /\ st.counts[p] >= m => st.counts_after[p] >= m
                      /\ st.counts_after[p] > st.counts[p] => st.counts_after[p] <= m
                      /\ st.counts_after[p] = CountOf(st.final_after, p)

\* two substitutions in one call, each for another entity
C25_Witness ==
    /\ Balanced
    /\ Len(Substitutions) >= 2
    /\ sorted_results[Substitutions[1].position].chunk.product_name
         # sorted_results[Substitutions[2].position].chunk.product_name

-----------------------------------------------------------------------------
(* C26 *)

\* the chunk_ids of the pool's chunks of an entity
PoolIdsOf(product_name) ==
    { sorted_results[i].chunk_id :
        i \in { j \in 1..Len(sorted_results) :
                  sorted_results[j].chunk.product_name = product_name } }

\* no substitution is left for this entity: all of its pool chunks are in the result,
\* or no other entity has more than m results
NoEligibleSwap(product_name, m) ==
    \/ PoolIdsOf(product_name) \subseteq ChunkIds(final_results)
    \/ \A other \in Products \ {product_name} : CountOf(final_results, other) <= m

\* C26: balancing terminates, each candidate being visited once, and when it returns no
\* eligible swap remains: every entity of the pool has at least m = max(1, top_k // 2)
\* results, or for every entity still below m all of its pool chunks are in the result
\* or no other entity has more than m results.
C26_NoEligibleSwapRemains ==
    Balanced =>
        LET m == MinChunksPerProduct(call.top_k)
        IN /\ Len(Substitutions) <= Len(sorted_results)
           /\ \A n \in 1..(Len(Substitutions) - 1) :
                 Substitutions[n].position < Substitutions[n + 1].position
           /\ \/ \A p \in PoolProducts : CountOf(final_results, p) >= m
              \/ \A p \in PoolProducts :
                    CountOf(final_results, p) < m => NoEligibleSwap(p, m)

\* balancing substituted a chunk and ended short of the minimum share: two entities are
\* below m with all their chunks in the result, a third is above m
C26_Witness ==
    /\ Balanced /\ Len(Substitutions) >= 1
    /\ LET m == MinChunksPerProduct(call.top_k)
       IN /\ \E p \in PoolProducts : CountOf(final_results, p) > m
          /\ Cardinality({ p \in PoolProducts : CountOf(final_results, p) < m }) = 2

\* balancing stopped at the break: the last substitution brought every entity to m
C26_WitnessBalanced ==
    /\ Balanced /\ Len(Substitutions) >= 2
    /\ \A p \in PoolProducts : CountOf(final_results, p) >= MinChunksPerProduct(call.top_k)
    /\ Substitutions[Len(Substitutions)].position < Len(sorted_results)

-----------------------------------------------------------------------------
(* C27 *)

Chunked == ingest = "chunked"

\* C27: chunk_id is unique across the corpus: for every set of documents the ingestion
\* can produce, several PDFs of one product with the same document type included, no two
\* chunks of chunk_all_documents share a chunk_id.
C27_ChunkIdUnique ==
    Chunked =>
        \A i, j \in 1..Len(all_chunks) :
            i # j => all_chunks[i].chunk_id # all_chunks[j].chunk_id

\* the same property where no two PDFs of a product have the same document type: it
\* holds there
C27_HoldsForDistinctDocTypes ==
    ( \A a, b \in pdf_files :
         (a # b /\ a.product_name = b.product_name)
         => InferDocType(a.name) # InferDocType(b.name) )
    => C27_ChunkIdUnique

\* chunk_index, the position in the corpus, is unique whatever the documents are
C27_ChunkIndexUnique ==
    Chunked => \A i \in 1..Len(all_chunks) : all_chunks[i].chunk_index = i - 1

-----------------------------------------------------------------------------
(* C28 *)

\* C28: constructing a HybridSearcher on a storage path whose collection upload_to_qdrant
\* populated leaves the stored points intact: after the constructor's
\* _initialize_qdrant the collection holds the points it held before, so that a vector
\* search can return them.
C28_ConstructorKeepsPoints ==
    (init_try.path = "constructor" /\ ~init_try.raised)
    => points = init_try.points_before

\* C28, the least it asks: after the constructor some of the uploaded points are left
C28_PointsAfterConstructor ==
    (init_try.path = "constructor" /\ ~init_try.raised /\ init_try.points_before # {})
    => points # {}

-----------------------------------------------------------------------------
(* C29 *)

\* C29: balancing keeps, for each entity, a prefix of that entity's chunks in the fused
\* order: when a chunk of entity E is in the returned list, every chunk of E that
\* precedes it in the sorted fused list, equal scores included, is in the returned list.
C29_EntityPrefix ==
    Balanced =>
        \A i, j \in 1..Len(sorted_results) :
            ( /\ i < j
              /\ sorted_results[i].chunk.product_name = sorted_results[j].chunk.product_name
              /\ sorted_results[j].chunk_id \in ChunkIds(final_results) )
            => sorted_results[i].chunk_id \in ChunkIds(final_results)

\* no two chunks of one entity have the same rrf_score
NoTiesWithinEntity ==
    \A i, j \in 1..Len(sorted_results) :
        ( /\ i # j
          /\ sorted_results[i].chunk.product_name = sorted_results[j].chunk.product_name )
        => sorted_results[i].rrf_score # sorted_results[j].rrf_score

\* the same property where no two chunks of one entity have equal scores: it holds there
C29_HoldsWithoutTies == NoTiesWithinEntity => C29_EntityPrefix

-----------------------------------------------------------------------------
(* C30 *)

\* the chunk_ids the substitutions of the call took out of the list
EvictedIds ==
    { Substitutions[n].final[Substitutions[n].min_score_idx].chunk_id :
        n \in 1..Len(Substitutions) }

\* C30: the returned list never holds one chunk_id twice, every element is a fused
\* candidate with that candidate's own rrf_score and rank fields, a chunk evicted by a
\* substitution is never re-inserted, and the length is that of plain truncation.
C30_ResultElements ==
    Called =>
        /\ \A i, j \in 1..Len(final_results) :
              i # j => final_results[i].chunk_id # final_results[j].chunk_id
        /\ \A i \in 1..Len(final_results) :
              \E k \in 1..Len(sorted_results) : final_results[i] = sorted_results[k]
        /\ Len(final_results) = Len(Take(sorted_results, call.top_k))
        /\ Balanced =>
              /\ EvictedIds \cap ChunkIds(final_results) = {}
              /\ Cardinality(EvictedIds) = Len(Substitutions)

\* balancing substituted twice in a pool larger than top_k
C30_Witness ==
    /\ Balanced
    /\ Len(Substitutions) >= 2
    /\ Len(sorted_results) > call.top_k + 1
    /\ Len(final_results) = call.top_k

====
